---- MODULE Spec2Model ----
(***************************************************************************)
(* F1TrackDownloader: the mapping store (cache.py, models.py), the         *)
(* resolution pipeline (services.py), the Overpass failover executor, the  *)
(* candidate scorer and the element searches (clients/overpass.py), and    *)
(* the Wikidata client (clients/wikidata.py).                              *)
(*                                                                         *)
(* Encoding of Python values:                                              *)
(*   - None in a string field is the string None, None in an integer field *)
(*     is NoInt (-1; OSM ids, versions and clock values are >= 0);         *)
(*   - a dict is a function whose DOMAIN is its key set, so an absent key  *)
(*     and a key holding None are different, as in Python;                 *)
(*   - a comment is a record [kind, qid, others] (see the Comment section);*)
(*   - verified_at is the minute number strftime("%Y-%m-%d %H:%M") keeps,  *)
(*     and EmptyStamp is the empty string from_dict defaults to.           *)
(***************************************************************************)
EXTENDS Integers, Sequences, FiniteSets, TLC

VARIABLES
    \* ---- mapping store and resolution pipeline (Spec) ----
    world,      \* what Wikidata / OSM currently answer (environment)
    data,       \* CircuitCache._data["circuits"]: name -> record dict
    file,       \* circuit_mappings.json: [status, circuits]
    proc,       \* "running" | "stopped" (run() has returned or was interrupted)
                \* | "failed" (an exception has ended run())
    now,        \* wall clock reading of the process, in ticks
    lastOp,     \* the operation that produced this state
    run,        \* locals of the last search_osm_id run, as left at its return
    presult,    \* ProcessResult of the last process_circuit call
    outfiles,   \* circuit names whose <safe_filename>.geojson exists
    \* ---- CacheEntry.to_dict / from_dict (SpecEntry) ----
    entry,      \* a CacheEntry
    entryDict,  \* entry.to_dict()
    entryBack,  \* CacheEntry.from_dict(entry.to_dict())
    \* ---- OverpassClient._circuit_score (SpecScore) ----
    element,    \* an Overpass element
    score,      \* _circuit_score(element)
    \* ---- OverpassClient.query (SpecQuery) ----
    q,          \* the executor's fields and the locals of the running call
    \* ---- WikidataClient.find_ids / get_p402_batch (SpecWikidata) ----
    wd,         \* the call, the backend's response and what the call returned
    \* ---- OverpassClient._rate_limit and query in time (SpecThrottle) ----
    th,         \* the running call, the client's clock fields, request ages
    \* ---- OverpassClient searches on a query answer (SpecHits) ----
    ov,         \* the call, the answers of its queries and what it returned
    \* ---- process_circuit against an element edited upstream (SpecFetch) ----
    dl,         \* the position in process_circuit, the versions it has seen
    \* ---- CircuitCache objects of one Python process (SpecInstances) ----
    heap        \* DEFAULT_CACHE["circuits"], the instances and their files

storeVars == <<world, data, file, proc, now, lastOp, run, presult, outfiles>>
entryVars == <<entry, entryDict, entryBack>>
scoreVars == <<element, score>>
queryVars == <<q>>
clientVars == <<wd, th, ov>>
fetchVars == <<dl, heap>>
vars == <<storeVars, entryVars, scoreVars, queryVars, clientVars, fetchVars>>
otherVars == <<entryVars, scoreVars, queryVars, clientVars, fetchVars>>

----------------------------------------------------------------------------
(* Python values *)

None == "None"
NoInt == -1
EmptyStamp == -2

\* Python truthiness of an optional integer: None and 0 are falsy.
TruthyInt(x) == x # NoInt /\ x # 0
\* Python truthiness of an optional string: None and "" are falsy.
TruthyStr(s) == s # None /\ s # ""

\* dict.get(k, default)
DictGet(d, k, default) == IF k \in DOMAIN d THEN d[k] ELSE default

\* The largest element of a non-empty set of integers.
SetMax(S) == CHOOSE x \in S : \A y \in S : y <= x

----------------------------------------------------------------------------
(* Comment values.  kind is                                                *)
(*   "none"  Python None                "empty" the empty string           *)
(*   "todo"  the auto-generated TODO text of CircuitCache.set; qid is the  *)
(*           Q-ID of the Wikidata link it carries, or None                 *)
(*   "also"  the runner-up list of search_osm_id; others is that list      *)
(*   "text"  a note written by the operator                                *)

NoComment == [kind |-> "none", qid |-> None, others |-> <<>>]
EmptyComment == [kind |-> "empty", qid |-> None, others |-> <<>>]
OperatorNote == [kind |-> "text", qid |-> None, others |-> <<>>]
TodoComment(wikidata_id) ==
    [kind |-> "todo",
     qid |-> IF TruthyStr(wikidata_id) THEN wikidata_id ELSE None,
     others |-> <<>>]
AlsoFound(others) == [kind |-> "also", qid |-> None, others |-> others]

TruthyComment(c) == c.kind \notin {"none", "empty"}

----------------------------------------------------------------------------
(* models.py: CacheEntry *)

BaseKeys ==
    {"osm_id", "osm_type", "wikidata_id", "search_method", "search_name",
     "verified_at", "manual"}

\* to_dict writing osm_version only when it is truthy.
ToDictTruthyVersion(e) ==
    [k \in BaseKeys
           \cup (IF TruthyComment(e.comment) THEN {"comment"} ELSE {})
           \cup (IF TruthyInt(e.osm_version) THEN {"osm_version"} ELSE {})
       |-> e[k]]

\* CacheEntry.to_dict: comment is written only when truthy, osm_version only
\* when it is not None.
ToDict(e) ==
    [k \in BaseKeys
           \cup (IF TruthyComment(e.comment) THEN {"comment"} ELSE {})
           \cup (IF e.osm_version # NoInt THEN {"osm_version"} ELSE {})
       |-> e[k]]

\* CacheEntry.from_dict: every field by dict.get, with its default.
FromDict(d) ==
    [osm_id        |-> DictGet(d, "osm_id", NoInt),
     osm_type      |-> DictGet(d, "osm_type", None),
     wikidata_id   |-> DictGet(d, "wikidata_id", None),
     search_method |-> DictGet(d, "search_method", None),
     search_name   |-> DictGet(d, "search_name", None),
     verified_at   |-> DictGet(d, "verified_at", EmptyStamp),
     manual        |-> DictGet(d, "manual", FALSE),
     comment       |-> DictGet(d, "comment", NoComment),
     osm_version   |-> DictGet(d, "osm_version", NoInt)]

----------------------------------------------------------------------------
(* clients/overpass.py: OverpassClient._circuit_score                      *)
(* An element is a dict with keys among type, id, tags; tags is a dict of  *)
(* tag values.  The sport tag value is a sequence of characters, so that   *)
(* the substring test of the code is computed; other values are strings.   *)

EmptyDict == [k \in {} |-> None]

\* Python's  sub in s  on strings, as sequences of characters.
Contains(sub, s) ==
    \E i \in 1..(Len(s) - Len(sub) + 1) : SubSeq(s, i, i + Len(sub) - 1) = sub

Motor == <<"m", "o", "t", "o", "r">>

\* The same scorer with the landuse/amenity penalty taken once per key.
CircuitScorePerKey(el) ==
    LET tags == DictGet(el, "tags", EmptyDict)
    IN  (IF DictGet(tags, "type", None) = "circuit" THEN 100 ELSE 0)
      + (IF DictGet(tags, "highway", None) = "raceway" THEN 50 ELSE 0)
      + (IF Contains(Motor, DictGet(tags, "sport", <<>>)) THEN 10 ELSE 0)
      + (IF DictGet(tags, "leisure", None) = "track" THEN 10 ELSE 0)
      - (IF DictGet(tags, "type", None) \in {"multipolygon", "site"} THEN 30 ELSE 0)
      - (IF DictGet(tags, "leisure", None) = "sports_centre" THEN 50 ELSE 0)
      - (IF DictGet(tags, "highway", None) = "services" THEN 60 ELSE 0)
      - (IF "landuse" \in DOMAIN tags THEN 20 ELSE 0)
      - (IF "amenity" \in DOMAIN tags THEN 20 ELSE 0)
      + (IF DictGet(el, "type", None) = "relation" THEN 5 ELSE 0)

\* _circuit_score(element): the if-statements of the code, in their order.
CircuitScore(el) ==
    LET tags == DictGet(el, "tags", EmptyDict)
        s1 == 0 + (IF DictGet(tags, "type", None) = "circuit" THEN 100 ELSE 0)
        s2 == s1 + (IF DictGet(tags, "highway", None) = "raceway" THEN 50 ELSE 0)
        s3 == s2 + (IF Contains(Motor, DictGet(tags, "sport", <<>>)) THEN 10 ELSE 0)
        s4 == s3 + (IF DictGet(tags, "leisure", None) = "track" THEN 10 ELSE 0)
        s5 == s4 - (IF DictGet(tags, "type", None) \in {"multipolygon", "site"}
                    THEN 30 ELSE 0)
        s6 == s5 - (IF DictGet(tags, "leisure", None) = "sports_centre" THEN 50 ELSE 0)
        s7 == s6 - (IF DictGet(tags, "highway", None) = "services" THEN 60 ELSE 0)
        s8 == s7 - (IF "landuse" \in DOMAIN tags \/ "amenity" \in DOMAIN tags
                    THEN 20 ELSE 0)
    IN  s8 + (IF DictGet(el, "type", None) = "relation" THEN 5 ELSE 0)

\* Tag values the scorer is exercised on; "absent" stands for a missing key.
Absent == "absent"
TypeTagValues == {Absent, "circuit", "multipolygon", "site", "route"}
HighwayTagValues == {Absent, "raceway", "services", "track"}
AbsentSport == <<Absent>>
SportTagValues ==
    {AbsentSport,
     Motor,
     <<"m", "o", "t", "o", "r", "s", "p", "o", "r", "t">>,
     <<"m", "o", "t", "o">>,
     <<"k", "a", "r", "t", ";", "m", "o", "t", "o", "r">>}
LeisureTagValues == {Absent, "track", "sports_centre", "park"}
LanduseTagValues == {Absent, "x"}
AmenityTagValues == {Absent, "parking"}
NameTagValues == {Absent, "Example Circuit"}
ElementKinds == {Absent, "relation", "way", "node"}

\* The dict with the given optional keys, the absent ones left out.
MakeTags(ty, hw, sp, le, lu, am, nm) ==
    LET v == [type |-> ty, highway |-> hw, sport |-> sp, leisure |-> le,
              landuse |-> lu, amenity |-> am, name |-> nm]
        keys == {k \in {"type", "highway", "leisure", "landuse", "amenity", "name"} :
                    v[k] # Absent}
                \cup (IF sp # AbsentSport THEN {"sport"} ELSE {})
    IN  [k \in keys |-> v[k]]

MakeElement(kind, hasTags, tags) ==
    LET keys == (IF kind # Absent THEN {"type"} ELSE {})
                \cup (IF hasTags THEN {"tags"} ELSE {})
    IN  [k \in keys |-> IF k = "type" THEN kind ELSE tags]

ScoreElements ==
    {MakeElement(kind, TRUE, MakeTags(ty, hw, sp, le, lu, am, nm)) :
        kind \in ElementKinds, ty \in TypeTagValues, hw \in HighwayTagValues,
        sp \in SportTagValues, le \in LeisureTagValues, lu \in LanduseTagValues,
        am \in AmenityTagValues, nm \in NameTagValues}
    \cup {MakeElement(kind, FALSE, EmptyDict) : kind \in ElementKinds}

Unscored == [scored |-> FALSE, value |-> 0]

\* The rule table of the scorer, row by row: RuleApplies(i, el) is row i's
\* condition and RuleDelta(i) its delta.
RuleApplies(i, el) ==
    LET tags == DictGet(el, "tags", EmptyDict)
    IN  CASE i = 1 -> "type" \in DOMAIN tags /\ tags["type"] = "circuit"
          [] i = 2 -> "highway" \in DOMAIN tags /\ tags["highway"] = "raceway"
          [] i = 3 -> "sport" \in DOMAIN tags /\ Contains(Motor, tags["sport"])
          [] i = 4 -> "leisure" \in DOMAIN tags /\ tags["leisure"] = "track"
          [] i = 5 -> "type" \in DOMAIN tags /\ tags["type"] \in {"multipolygon", "site"}
          [] i = 6 -> "leisure" \in DOMAIN tags /\ tags["leisure"] = "sports_centre"
          [] i = 7 -> "highway" \in DOMAIN tags /\ tags["highway"] = "services"
          [] i = 8 -> {"landuse", "amenity"} \cap DOMAIN tags # {}
          [] i = 9 -> "type" \in DOMAIN el /\ el["type"] = "relation"
RuleDelta(i) ==
    CASE i = 1 -> 100 [] i = 2 -> 50 [] i = 3 -> 10 [] i = 4 -> 10 [] i = 5 -> -30
      [] i = 6 -> -50 [] i = 7 -> -60 [] i = 8 -> -20 [] i = 9 -> 5

RECURSIVE RuleTableSum(_, _)
RuleTableSum(i, el) ==
    IF i = 0 THEN 0
    ELSE RuleTableSum(i - 1, el) + (IF RuleApplies(i, el) THEN RuleDelta(i) ELSE 0)

----------------------------------------------------------------------------
(* clients/overpass.py: OverpassClient.query, one request per step.        *)
(* q holds the client's _current_server, the configured max_retries and    *)
(* the locals of the running call (attempt, the position in the server     *)
(* list, the three error counters of the round, last_error), and what the  *)
(* call did so far: the servers contacted in this round, the number of     *)
(* requests, the backoff sleeps, the last response and the returned pair.  *)

\* config.py: Config.overpass_servers, in order.
ServerNames == <<"overpass-api.de", "kumi.systems", "mail.ru", "private.coffee", "osm.jp">>
NumServers == Len(ServerNames)

\* config.py: Config.retry_delay
RetryDelay == 5

\* Values of max_retries the executor is configured with: 0..MaxRetriesCap.
MaxRetriesCap == 3

\* Payloads a server may send with a 200.
Bodies == {"elements-A", "elements-B"}

NoResp == [server |-> None, status |-> None, body |-> None]
NoResult == [returned |-> FALSE, data |-> None, server |-> None]
Failure == [returned |-> TRUE, data |-> None, server |-> None]

QueryIdle(mr, cur) ==
    [pc |-> "idle", max_retries |-> mr, current_server |-> cur,
     attempt |-> 0, idx |-> 1,
     rate_limits |-> 0, timeouts |-> 0, other_errors |-> 0, last_error |-> FALSE,
     contacted |-> <<>>, requests |-> 0, sleeps |-> <<>>,
     lastResp |-> NoResp, result |-> NoResult]

\* The round-end decision with the test on the timeout counter instead.
RoundEndOnTimeouts(qq) ==
    IF qq.timeouts = 0
    THEN [qq EXCEPT !.pc = "done", !.result = Failure]
    ELSE IF qq.attempt < qq.max_retries - 1
    THEN [qq EXCEPT !.sleeps = Append(@, RetryDelay * (qq.attempt + 2)),
                    !.attempt = @ + 1, !.idx = 1, !.contacted = <<>>,
                    !.rate_limits = 0, !.timeouts = 0, !.other_errors = 0]
    ELSE [qq EXCEPT !.pc = "done", !.result = Failure]

\* The round-end decision sleeping after the last round as well.
RoundEndSleepsAfterLast(qq) ==
    IF qq.rate_limits = 0
    THEN [qq EXCEPT !.pc = "done", !.result = Failure]
    ELSE IF qq.attempt < qq.max_retries - 1
    THEN [qq EXCEPT !.sleeps = Append(@, RetryDelay * (qq.attempt + 2)),
                    !.attempt = @ + 1, !.idx = 1, !.contacted = <<>>,
                    !.rate_limits = 0, !.timeouts = 0, !.other_errors = 0]
    ELSE [qq EXCEPT !.sleeps = Append(@, RetryDelay * (qq.attempt + 2)),
                    !.pc = "done", !.result = Failure]

\* Lines 116-140: every server of the round failed.  Without a 429 the call
\* returns (None, None); with one it sleeps retry_delay * (attempt + 2) and
\* starts the next round, unless this was the last round, after which the
\* loop ends and the call returns (None, None).
RoundEnd(qq) ==
    IF qq.rate_limits = 0
    THEN [qq EXCEPT !.pc = "done", !.result = Failure]
    ELSE IF qq.attempt < qq.max_retries - 1
    THEN [qq EXCEPT !.sleeps = Append(@, RetryDelay * (qq.attempt + 2)),
                    !.attempt = @ + 1, !.idx = 1, !.contacted = <<>>,
                    !.rate_limits = 0, !.timeouts = 0, !.other_errors = 0]
    ELSE [qq EXCEPT !.pc = "done", !.result = Failure]

\* The request of the server at position idx is sent (lines 64-70).
Sent(qq, status, body) ==
    [qq EXCEPT !.contacted = Append(@, ServerNames[qq.idx]),
               !.requests = @ + 1,
               !.lastResp = [server |-> ServerNames[qq.idx], status |-> status,
                             body |-> body]]

\* "continue": the next server of the round, or the end of the round.
Continue(qq) ==
    IF qq.idx < NumServers THEN [qq EXCEPT !.idx = @ + 1] ELSE RoundEnd(qq)

\* The 200 branch going on to the next server instead of returning.
OnSuccessTryNext(qq, body) ==
    Continue([qq EXCEPT !.current_server = ServerNames[qq.idx]])

\* Lines 72-81 with a decodable body: the marker moves, the call returns.
OnSuccess(qq, body) ==
    [qq EXCEPT !.pc = "done", !.current_server = ServerNames[qq.idx],
               !.result = [returned |-> TRUE, data |-> body,
                           server |-> ServerNames[qq.idx]]]

\* query() is called: _rate_limit, then the locals are set.  With
\* max_retries = 0 the loop body never runs and the call returns at once.
StartQuery ==
    /\ q.pc \in {"idle", "done"}
    /\ q' = LET fresh == [QueryIdle(q.max_retries, q.current_server) EXCEPT !.pc = "round"]
            IN  IF q.max_retries = 0
                THEN [fresh EXCEPT !.pc = "done", !.result = Failure]
                ELSE fresh
    /\ UNCHANGED <<storeVars, entryVars, scoreVars, clientVars, fetchVars>>

\* HTTP 200 with a JSON body.
Resp200 ==
    /\ q.pc = "round"
    /\ \E body \in Bodies : q' = OnSuccess(Sent(q, "200", body), body)
    /\ UNCHANGED <<storeVars, entryVars, scoreVars, clientVars, fetchVars>>

\* HTTP 200 whose body is not JSON, with requests >= 2.27: line 79 has moved
\* the marker, resp.json() raises requests.exceptions.JSONDecodeError, which
\* is a RequestException and is caught at line 108.
Resp200Undecodable ==
    /\ q.pc = "round"
    /\ q' = Continue([Sent(q, "200", None) EXCEPT
                         !.current_server = ServerNames[q.idx],
                         !.last_error = TRUE, !.other_errors = @ + 1])
    /\ UNCHANGED <<storeVars, entryVars, scoreVars, clientVars, fetchVars>>

\* The same response with an older requests: resp.json() raises a plain
\* ValueError, which no handler of query() catches.
Resp200UndecodableRaises ==
    /\ q.pc = "round"
    /\ q' = [Sent(q, "200", None) EXCEPT
                !.current_server = ServerNames[q.idx], !.pc = "raised"]
    /\ UNCHANGED <<storeVars, entryVars, scoreVars, clientVars, fetchVars>>

Resp429 ==
    /\ q.pc = "round"
    /\ q' = Continue([Sent(q, "429", None) EXCEPT !.rate_limits = @ + 1])
    /\ UNCHANGED <<storeVars, entryVars, scoreVars, clientVars, fetchVars>>

Resp504 ==
    /\ q.pc = "round"
    /\ q' = Continue([Sent(q, "504", None) EXCEPT !.timeouts = @ + 1])
    /\ UNCHANGED <<storeVars, entryVars, scoreVars, clientVars, fetchVars>>

\* Any other status code.
RespOtherStatus ==
    /\ q.pc = "round"
    /\ q' = Continue([Sent(q, "500", None) EXCEPT !.other_errors = @ + 1])
    /\ UNCHANGED <<storeVars, entryVars, scoreVars, clientVars, fetchVars>>

\* requests.exceptions.Timeout
RespTimeout ==
    /\ q.pc = "round"
    /\ q' = Continue([Sent(q, "timeout", None) EXCEPT !.timeouts = @ + 1])
    /\ UNCHANGED <<storeVars, entryVars, scoreVars, clientVars, fetchVars>>

\* Any other requests.RequestException
RespConnectionError ==
    /\ q.pc = "round"
    /\ q' = Continue([Sent(q, "connection-error", None) EXCEPT
                         !.last_error = TRUE, !.other_errors = @ + 1])
    /\ UNCHANGED <<storeVars, entryVars, scoreVars, clientVars, fetchVars>>

\* The exception of Resp200UndecodableRaises ends the process; the next
\* process builds a new client (__init__, lines 18-26).
NewClient ==
    /\ q.pc = "raised"
    /\ q' = QueryIdle(q.max_retries, None)
    /\ UNCHANGED <<storeVars, entryVars, scoreVars, clientVars, fetchVars>>

----------------------------------------------------------------------------
(* cache.py: CircuitCache *)

\* Clock ticks per minute: verified_at keeps the minute only.
TicksPerMinute == 2

\* The clock readings a process starts at.
MaxTime == 3

\* datetime.now().strftime("%Y-%m-%d %H:%M")
FormatMinute(t) == t \div TicksPerMinute

NoEntry == [absent |-> TRUE]

\* CircuitCache.get: the entry of name, or None (NoEntry).
Get(d, name) == IF name \in DOMAIN d THEN FromDict(d[name]) ELSE NoEntry

IsEntry(e) == "absent" \notin DOMAIN e

\* d[name] = rec on a dict that is cleared first.
PutAlone(d, name, rec) == [n \in {name} |-> rec]

\* d[name] = rec
Put(d, name, rec) ==
    [n \in DOMAIN d \cup {name} |-> IF n = name THEN rec ELSE d[n]]

\* The entry with the manual flag left unset.
BuildEntryNeverManual(osm_id, osm_type, wikidata_id, method, search_name, comment, t) ==
    [osm_id        |-> osm_id,
     osm_type      |-> osm_type,
     wikidata_id   |-> wikidata_id,
     search_method |-> method,
     search_name   |-> search_name,
     verified_at   |-> FormatMinute(t),
     manual        |-> FALSE,
     comment       |-> IF osm_id = NoInt /\ ~TruthyComment(comment)
                       THEN TodoComment(wikidata_id)
                       ELSE comment,
     osm_version   |-> NoInt]

\* The entry with the comment as passed, without the TODO text.
BuildEntryKeepsComment(osm_id, osm_type, wikidata_id, method, search_name, comment, t) ==
    [osm_id        |-> osm_id,
     osm_type      |-> osm_type,
     wikidata_id   |-> wikidata_id,
     search_method |-> method,
     search_name   |-> search_name,
     verified_at   |-> FormatMinute(t),
     manual        |-> osm_id = NoInt,
     comment       |-> comment,
     osm_version   |-> NoInt]

\* Lines 109-127: the entry set() builds from its arguments.
BuildEntry(osm_id, osm_type, wikidata_id, method, search_name, comment, t) ==
    LET needs_manual == osm_id = NoInt
    IN  [osm_id        |-> osm_id,
         osm_type      |-> osm_type,
         wikidata_id   |-> wikidata_id,
         search_method |-> method,
         search_name   |-> search_name,
         verified_at   |-> FormatMinute(t),
         manual        |-> needs_manual,
         comment       |-> IF needs_manual /\ ~TruthyComment(comment)
                           THEN TodoComment(wikidata_id)
                           ELSE comment,
         osm_version   |-> NoInt]

\* set() keeping the osm_version of the record it replaces.
CacheSetKeepsVersion(d, name, osm_id, osm_type, wikidata_id, method, search_name, comment, t) ==
    LET existing == DictGet(d, name, EmptyDict)
        rebuilt == ToDict(BuildEntry(osm_id, osm_type, wikidata_id, method, search_name,
                                   comment, t))
    IN  IF DictGet(existing, "manual", FALSE)
        THEN [data |-> d, saved |-> FALSE]
        ELSE [data |-> Put(d, name,
                           IF "osm_version" \in DOMAIN existing
                           THEN Put(rebuilt, "osm_version", existing["osm_version"])
                           ELSE rebuilt),
              saved |-> TRUE]

\* set() without the test of the manual flag.
CacheSetOverwritesManual(d, name, osm_id, osm_type, wikidata_id, method, search_name, comment, t) ==
    [data |-> Put(d, name, ToDict(BuildEntry(osm_id, osm_type, wikidata_id, method,
                                             search_name, comment, t))),
     saved |-> TRUE]

\* CircuitCache.set: the circuits dict after the call, and whether save()
\* was called.  A record whose manual flag is truthy is left alone.
CacheSet(d, name, osm_id, osm_type, wikidata_id, method, search_name, comment, t) ==
    LET existing == DictGet(d, name, EmptyDict)
    IN  IF DictGet(existing, "manual", FALSE)
        THEN [data |-> d, saved |-> FALSE]
        ELSE [data |-> Put(d, name, ToDict(BuildEntry(osm_id, osm_type, wikidata_id,
                                                      method, search_name, comment, t))),
              saved |-> TRUE]

\* update_version writing the version and clearing the manual flag.
UpdateVersionUnfreezes(d, name, version) ==
    IF name \in DOMAIN d
    THEN [data |-> Put(d, name, Put(Put(d[name], "osm_version", version),
                                    "manual", FALSE)),
          saved |-> TRUE]
    ELSE [data |-> d, saved |-> FALSE]

\* CircuitCache.update_version: sets osm_version of an existing record,
\* manual or not, and saves.
UpdateVersion(d, name, version) ==
    IF name \in DOMAIN d
    THEN [data |-> Put(d, name, Put(d[name], "osm_version", version)), saved |-> TRUE]
    ELSE [data |-> d, saved |-> FALSE]

\* What a call of save() does to the file.  open(path, "w") truncates the
\* target and json.dump then writes into it:
\*   "ok"           the dump completes: the file holds the store;
\*   "oserror"      open() raises OSError, caught and logged: file untouched;
\*   "interrupted"  the process is stopped (SIGINT handler of cli.py, a
\*                  kill, a power cut) after the truncation and before the
\*                  dump has finished: the file holds a prefix of the dump.
SaveOutcomes == {"ok", "oserror", "interrupted"}

Save(f, d, outcome) ==
    CASE outcome = "ok" -> [status |-> "ok", circuits |-> d]
      [] outcome = "oserror" -> f
      [] outcome = "interrupted" -> [status |-> "partial", circuits |-> EmptyDict]

\* The file after a store operation that reports whether it saved.
FileAfter(f, res, outcome) == IF res.saved THEN Save(f, res.data, outcome) ELSE f
\* save() letting the OSError through.
ProcAfterRaisesOSError(res, outcome) ==
    IF res.saved /\ outcome \in {"interrupted", "oserror"} THEN "failed" ELSE "running"

ProcAfter(res, outcome) ==
    IF res.saved /\ outcome = "interrupted" THEN "stopped" ELSE "running"

----------------------------------------------------------------------------
(* clients/overpass.py: _rate_limit and query in time.  th.q is the running *)
(* call as in q; th.since is the time since _last_request_time was set,     *)
(* th.age[k] the time since the last request to the server at position k,   *)
(* both in ticks and kept up to the request delay (a longer time makes no   *)
(* difference to any test); th.gap is the age the contacted server had      *)
(* when the latest request was sent to it.                                   *)

\* Clock ticks per second.
TicksPerSecond == 3

\* config.py: Config.request_delay, in seconds (1.0).
RequestDelay == 1

\* The longest time a server takes to answer, in ticks; a request fails with
\* a timeout at the configured timeout, which is longer than the delay.
MaxLatency == 2

DelayTicks == RequestDelay * TicksPerSecond

\* d ticks later.
Later(t, d) == IF t + d > DelayTicks THEN DelayTicks ELSE t + d

Elapse(t, d) ==
    [t EXCEPT !.since = Later(@, d),
              !.age = [k \in DOMAIN @ |-> Later(@[k], d)]]

\* _rate_limit (lines 28-33): sleeps for what is missing of request_delay
\* since _last_request_time, then sets _last_request_time to the time.
RateLimit(t) ==
    [Elapse(t, IF t.since < DelayTicks THEN DelayTicks - t.since ELSE 0)
        EXCEPT !.since = 0]

\* The request to the server at position idx leaves at this moment.
Leave(t) ==
    [t EXCEPT !.gap = t.age[t.q.idx], !.age[t.q.idx] = 0]

\* The time.sleep of line 131, when the round end has appended one.
Backoff(qq, qn) ==
    IF Len(qn.sleeps) > Len(qq.sleeps)
    THEN qn.sleeps[Len(qn.sleeps)] * TicksPerSecond
    ELSE 0

\* The request of Leave(t) is answered d ticks later and the call goes on
\* to qn.
Answered(t, d, qn) ==
    [Elapse(Leave(t), d + Backoff(t.q, qn)) EXCEPT !.q = qn]

ThrottleStart(mr) ==
    [q |-> QueryIdle(mr, None), since |-> DelayTicks,
     age |-> [k \in 1..NumServers |-> DelayTicks], gap |-> DelayTicks]

\* query() is called: line 49 is _rate_limit().
ThQuery ==
    /\ th.q.pc \in {"idle", "done"}
    /\ th' = [RateLimit(th) EXCEPT
                 !.q = [QueryIdle(th.q.max_retries, th.q.current_server)
                           EXCEPT !.pc = "round"]]
    /\ UNCHANGED <<storeVars, entryVars, scoreVars, queryVars, wd, ov, fetchVars>>

ThResp200 ==
    /\ th.q.pc = "round"
    /\ \E d \in 1..MaxLatency, body \in Bodies :
          th' = Answered(th, d, OnSuccess(Sent(th.q, "200", body), body))
    /\ UNCHANGED <<storeVars, entryVars, scoreVars, queryVars, wd, ov, fetchVars>>

ThResp429 ==
    /\ th.q.pc = "round"
    /\ \E d \in 1..MaxLatency :
          th' = Answered(th, d, Continue([Sent(th.q, "429", None) EXCEPT
                                             !.rate_limits = @ + 1]))
    /\ UNCHANGED <<storeVars, entryVars, scoreVars, queryVars, wd, ov, fetchVars>>

ThResp504 ==
    /\ th.q.pc = "round"
    /\ \E d \in 1..MaxLatency :
          th' = Answered(th, d, Continue([Sent(th.q, "504", None) EXCEPT
                                             !.timeouts = @ + 1]))
    /\ UNCHANGED <<storeVars, entryVars, scoreVars, queryVars, wd, ov, fetchVars>>

\* requests.exceptions.Timeout, after the configured timeout.
ThTimeout ==
    /\ th.q.pc = "round"
    /\ th' = Answered(th, DelayTicks, Continue([Sent(th.q, "timeout", None) EXCEPT
                                                  !.timeouts = @ + 1]))
    /\ UNCHANGED <<storeVars, entryVars, scoreVars, queryVars, wd, ov, fetchVars>>

\* Between two calls of query() the caller does other work for a tick.
ThBetweenCalls ==
    /\ th.q.pc = "done"
    /\ th' = Elapse(th, 1)
    /\ UNCHANGED <<storeVars, entryVars, scoreVars, queryVars, wd, ov, fetchVars>>

----------------------------------------------------------------------------
(* clients/wikidata.py: WikidataClient.find_ids and get_p402_batch, from   *)
(* the backend's response to the value the call returns.  wd holds the     *)
(* call, its argument, the response and the outcome.                       *)

\* The largest number of results or bindings in a response.
MaxResults == 3

SeqsUpTo(S, n) == UNION {[1..k -> S] : k \in 0..n}

\* Markers for a key the JSON object does not have and for a JSON null.
NoKey == "<no key>"
Null == "<null>"

Pending == [status |-> "pending"]
Raised == [status |-> "raised"]
Returned(v) == [status |-> "returned", value |-> v]

\* str.lower() on the characters the descriptions are written with.
LowerChar(c) ==
    CASE c = "F" -> "f"
      [] c = "R" -> "r"
      [] c = "T" -> "t"
      [] OTHER -> c
Lower(s) == [i \in 1..Len(s) |-> LowerChar(s[i])]

\* WikidataClient.<<"c", "i", "r", "c", "u", "i", "t">>_KEYWORDS (line 19) and the two terms of line 76.
CircuitKeywords ==
    {<<"c", "i", "r", "c", "u", "i", "t">>, <<"t", "r", "a", "c", "k">>, <<"r", "a", "c", "e", "w", "a", "y">>, <<"m", "o", "t", "o", "r", "s", "p", "o", "r", "t">>, <<"r", "a", "c", "i", "n", "g">>}
FormulaKeywords == {<<"f", "o", "r", "m", "u", "l", "a">>, <<"f", "1">>}

\* Descriptions, as character sequences; a result without the key reads as
\* the empty string, a null description is not a string.
Descriptions ==
    {<<"c", "i", "t", "y">>,
     <<"F", "o", "r", "m", "u", "l", "a", " ", "t", "e", "a", "m">>,
     <<"R", "a", "c", "e", " ", "T", "r", "a", "c", "k">>,
     <<"F", "1", " ", "c", "i", "r", "c", "u", "i", "t">>}
NoDescription == <<NoKey>>
NullDescription == <<Null>>

WdIds == {"Q1", "Q2", "Q3"}

\* The entries of data["search"].
SearchResults ==
    [id : WdIds, description : Descriptions]
    \cup {[id |-> "Q1", description |-> NoDescription],
          [id |-> "Q2", description |-> NullDescription],
          [id |-> NoKey, description |-> <<"R", "a", "c", "e", " ", "T", "r", "a", "c", "k">>]}

\* What the backend answers a wbsearchentities request with:
\*   "transport-error"  requests.RequestException;
\*   "not-json"         resp.json() raises ValueError;
\*   "not-object"       JSON that is not an object (a list, a number);
\*   "no-search"        an object without the key "search";
\*   "object"           an object with the list search.
FindResponses ==
    {[kind |-> k] : k \in {"transport-error", "not-json", "not-object", "no-search"}}
    \cup {[kind |-> "object", search |-> s] : s \in SeqsUpTo(SearchResults, MaxResults)}

\* r.get("description", "").lower()
DescOf(r) == IF r.description = NoDescription THEN <<>> ELSE Lower(r.description)

\* Lines 69-77: the score of one result.
KeywordScore(desc) ==
    (IF \E kw \in CircuitKeywords : Contains(kw, desc) THEN 10 ELSE 0)
    + (IF \E kw \in FormulaKeywords : Contains(kw, desc) THEN 5 ELSE 0)

\* The list scored of lines 65-79.
Scored(results) ==
    [i \in 1..Len(results) |->
        [score |-> KeywordScore(DescOf(results[i])), id |-> results[i].id]]

\* list.sort(key=score, reverse=True) is stable: an element goes behind
\* every element whose score is at least its own.
InsertScored(sorted, x) ==
    LET k == Cardinality({i \in 1..Len(sorted) : sorted[i].score >= x.score})
    IN  SubSeq(sorted, 1, k) \o <<x>> \o SubSeq(sorted, k + 1, Len(sorted))

RECURSIVE SortScoredFrom(_, _)
SortScoredFrom(s, n) ==
    IF n = 0 THEN <<>> ELSE InsertScored(SortScoredFrom(s, n - 1), s[n])

SortScored(s) == SortScoredFrom(s, Len(s))

IdsOf(scored) == [i \in 1..Len(scored) |-> scored[i].id]

\* The first result the loop of lines 67-79 fails on, 0 when there is none:
\* a null description (None has no lower()) or a result without "id".
BadResult(r) == r.description = NullDescription \/ r.id = NoKey
FirstBad(results) ==
    IF \E i \in 1..Len(results) : BadResult(results[i])
    THEN CHOOSE i \in 1..Len(results) :
            /\ BadResult(results[i])
            /\ \A j \in 1..(i - 1) : ~BadResult(results[j])
    ELSE 0

\* The outcome of the loop that fails at the result bad: AttributeError is
\* not among the exceptions of line 86, KeyError is.
FailedAt(results, bad) ==
    IF results[bad].description = NullDescription THEN Raised ELSE Returned(<<>>)

FindIdsRanked(results, bad) ==
    IF bad = 0 THEN Returned(IdsOf(SortScored(Scored(results))))
    ELSE FailedAt(results, bad)

\* find_ids dropping the results without a keyword.
FindIdsDropsUnrelated(resp) ==
    IF resp.kind = "object"
    THEN Returned(IdsOf(SelectSeq(SortScored(Scored(
             SelectSeq(resp.search, LAMBDA r : ~BadResult(r)))),
             LAMBDA x : x.score > 0)))
    ELSE Returned(<<>>)

\* WikidataClient.find_ids, lines 45-87.
FindIdsOf(resp) ==
    CASE resp.kind \in {"transport-error", "not-json", "no-search"} -> Returned(<<>>)
      [] resp.kind = "not-object" -> Raised
      [] OTHER -> FindIdsRanked(resp.search, FirstBad(resp.search))

\* ---- get_p402_batch ----

\* The URI of an entity, "/" being a piece of its own.
EntityUri(qid) == <<"http:", "/", "/", "www.wikidata.org", "/", "entity", "/", qid>>
\* binding.get("item", {}).get("value", "") of a binding without item.
NoUri == <<>>

\* item_uri.split("/")[-1]: the piece behind the last "/", the empty string
\* when there is none.
LastPiece(uri) ==
    IF Len(uri) = 0 \/ uri[Len(uri)] = "/" THEN "" ELSE uri[Len(uri)]

\* int(text) of the strings a binding carries; any other string is a
\* ValueError.
IntOfText == [t \in {"555", "556"} |-> IF t = "555" THEN 555 ELSE 556]

\* binding["osmRelation"]: NoKey when the binding has no osmRelation,
\* "<no value>" when osmRelation has no "value", Null when the value is a
\* JSON null, else the value string.
NoValue == "<no value>"

Bindings ==
    [item : {EntityUri("Q1")},
     osmRelation : {NoKey, NoValue, Null, "555", "556", "abc"}]
    \cup [item : {EntityUri("Q2")}, osmRelation : {NoKey, "556", "abc"}]
    \cup [item : {EntityUri("Q9"), NoUri}, osmRelation : {"555"}]

\* The lists of Q-IDs the batch is asked for.
BatchQids == {<<>>, <<"Q1">>, <<"Q1", "Q2">>, <<"Q2", "Q1">>}

\* What the SPARQL endpoint answers with; "no-results" is an object
\* without the key "results".
BatchResponses ==
    {[kind |-> k] : k \in {"transport-error", "not-json", "not-object", "no-results"}}
    \cup {[kind |-> "object", bindings |-> s] : s \in SeqsUpTo(Bindings, MaxResults)}

\* {qid: None for qid in qids}
AllNone(qids) == [x \in {qids[i] : i \in 1..Len(qids)} |-> NoInt]

\* The value of the binding is a string int() accepts.
IntegerBinding(b) == b.osmRelation \in DOMAIN IntOfText

\* Lines 155-162 for one binding.
ApplyBinding(results, b) ==
    IF IntegerBinding(b)
    THEN Put(results, LastPiece(b.item), IntOfText[b.osmRelation])
    ELSE results

RECURSIVE ApplyBindings(_, _, _)
ApplyBindings(results, bs, n) ==
    IF n = 0 THEN results
    ELSE ApplyBinding(ApplyBindings(results, bs, n - 1), bs[n])

\* int(None) raises TypeError, which neither line 161 nor line 166 catches.
RaisesTypeError(bs) == \E i \in 1..Len(bs) : bs[i].osmRelation = Null

\* The batch with the ValueError of a binding caught by the outer handler.
GetP402BatchAllOrNothing(qids, resp) ==
    IF qids = <<>> THEN Returned(EmptyDict)
    ELSE IF resp.kind # "object" THEN Returned(AllNone(qids))
    ELSE IF \E i \in 1..Len(resp.bindings) :
               resp.bindings[i].osmRelation \notin DOMAIN IntOfText \cup {NoKey}
    THEN Returned(AllNone(qids))
    ELSE Returned(ApplyBindings(AllNone(qids), resp.bindings, Len(resp.bindings)))

\* WikidataClient.get_p402_batch, lines 130-168.
GetP402BatchOf(qids, resp) ==
    IF qids = <<>> THEN Returned(EmptyDict)
    ELSE CASE resp.kind \in {"transport-error", "not-json"} -> Returned(AllNone(qids))
           [] resp.kind = "not-object" -> Raised
           [] resp.kind = "no-results" -> Returned(AllNone(qids))
           [] OTHER ->
                IF RaisesTypeError(resp.bindings) THEN Raised
                ELSE Returned(ApplyBindings(AllNone(qids), resp.bindings,
                                            Len(resp.bindings)))

FindIdsCall ==
    /\ wd.call = "find_ids"
    /\ wd.out = Pending
    /\ wd' = [wd EXCEPT !.out = FindIdsOf(wd.response)]
    /\ UNCHANGED <<storeVars, entryVars, scoreVars, queryVars, th, ov, fetchVars>>

GetP402BatchCall ==
    /\ wd.call = "get_p402_batch"
    /\ wd.out = Pending
    /\ wd' = [wd EXCEPT !.out = GetP402BatchOf(wd.qids, wd.response)]
    /\ UNCHANGED <<storeVars, entryVars, scoreVars, queryVars, th, ov, fetchVars>>

----------------------------------------------------------------------------
(* The environment: circuits (models.py: Circuit), Wikidata, OSM.          *)

\* grands_prix is the comma-separated column text, given as its pieces after
\* split(",") and strip(); an empty piece is dropped by search_names.
Circuit1 == [name |-> "Example Circuit",
             grands_prix |-> <<"Example Grand Prix", "">>]
Circuit2 == [name |-> "Other Circuit", grands_prix |-> <<>>]
Circuits == {Circuit1, Circuit2}
Names == {c.name : c \in Circuits}

NonBlank(piece) == piece # ""

\* Circuit.search_names
SearchNames(c) == <<c.name>> \o SelectSeq(c.grands_prix, NonBlank)

Qids == {"Q1", "Q2"}

\* OSM content: the elements an Overpass query can return.
OsmElements ==
    [i \in 555..564 |->
        CASE i = 555 -> [id |-> 555, type |-> "relation",
                         tags |-> [type |-> "circuit"]]
          [] i = 556 -> [id |-> 556, type |-> "relation",
                         tags |-> [type |-> "multipolygon", leisure |-> "sports_centre"]]
          [] i = 557 -> [id |-> 557, type |-> "way",
                         tags |-> [highway |-> "raceway"]]
          [] i = 558 -> [id |-> 558, type |-> "way",
                         tags |-> [leisure |-> "track", sport |-> Motor]]
          [] i = 559 -> [id |-> 559, type |-> "way",
                         tags |-> [highway |-> "raceway"]]
          [] i = 560 -> [id |-> 560, type |-> "way",
                         tags |-> [highway |-> "raceway", leisure |-> "sports_centre"]]
          [] i = 561 -> [id |-> 561, type |-> "way",
                         tags |-> [highway |-> "raceway", leisure |-> "sports_centre",
                                   landuse |-> "recreation_ground"]]
          [] i = 562 -> [id |-> 562, type |-> "relation",
                         tags |-> [type |-> "site", highway |-> "raceway"]]
          [] i = 563 -> [id |-> 563, type |-> "way",
                         tags |-> [highway |-> "raceway", sport |-> Motor,
                                   leisure |-> "sports_centre"]]
          [] i = 564 -> [id |-> 564, type |-> "way",
                         tags |-> [leisure |-> "track", landuse |-> "grass"]]]

\* The elements tagged circuit or raceway below a container (its children).
Children(id) == IF id = 556 THEN <<OsmElements[557]>> ELSE <<>>

\* A world: find[name] is the Q-ID list wbsearchentities ranks for name,
\* p402[qid] the P402 value of qid (NoInt: none), tag[qid] the id of the
\* element tagged wikidata=qid (NoInt: none), name[n] the id of the element
\* the name query matches for n (NoInt: none).
AllSearchNames == UNION {{SearchNames(c)[i] : i \in 1..Len(SearchNames(c))} : c \in Circuits}

WorldOf(f1, fgp, f2, p1, p2, t1, t2, n1, n2) ==
    [find |-> [n \in AllSearchNames |->
                  CASE n = Circuit1.name -> f1
                    [] n = Circuit2.name -> f2
                    [] OTHER -> fgp],
     p402 |-> [x \in Qids |-> IF x = "Q1" THEN p1 ELSE p2],
     tag  |-> [x \in Qids |-> IF x = "Q1" THEN t1 ELSE t2],
     name |-> [n \in Names |-> IF n = Circuit1.name THEN n1 ELSE n2]]

\* The Q-IDs some search of the world returns.
Listed(w) == UNION {{w.find[n][i] : i \in 1..Len(w.find[n])} : n \in AllSearchNames}

----------------------------------------------------------------------------
(* clients/osm.py, clients/wikidata.py, clients/overpass.py as the         *)
(* pipeline sees them.  up is FALSE when the backend does not answer       *)
(* during the run (every OverpassClient.query returns (None, None), every  *)
(* Wikidata request fails).                                                *)

\* What the HEAD request of verify_exists ends in: a status code, or a
\* requests.RequestException.
VerifyResponses == {"200", "404", "503", "network-error"}

\* verify_exists answering False on a network error.
VerifyExistsFailsClosed(resp) == resp = "200"

\* OsmClient.verify_exists: status 200, or True on a network error.
VerifyExists(resp) == IF resp = "network-error" THEN TRUE ELSE resp = "200"

\* WikidataClient.find_ids as ranked by the world; [] on any failure.
FindIds(w, name, up) == IF up THEN w.find[name] ELSE <<>>

\* WikidataClient.get_p402_batch: one entry per input Q-ID, None on failure.
GetP402Batch(w, qids, up) ==
    [i \in 1..Len(qids) |-> IF up THEN w.p402[qids[i]] ELSE NoInt]

NoElement == [none |-> TRUE]
IsElement(el) == "none" \notin DOMAIN el

\* OverpassClient.get_geometry(osm_id, osm_type): the first element of the
\* answer, None when the query fails or matches nothing.
GetGeometry(osm_id, osm_type, up) ==
    IF up /\ osm_id \in DOMAIN OsmElements /\ OsmElements[osm_id].type = osm_type
    THEN OsmElements[osm_id]
    ELSE NoElement

\* scored.sort(key=score, reverse=True)[0]: the first element of the list
\* with the largest score.
RECURSIVE BestFrom(_, _, _)
BestFrom(els, i, best) ==
    IF i > Len(els) THEN best
    ELSE BestFrom(els, i + 1,
                  IF CircuitScore(els[i]) > CircuitScore(best) THEN els[i] ELSE best)
BestElement(els) == BestFrom(els, 2, els[1])

NoHit == [osm_id |-> NoInt, osm_type |-> None, score |-> 0]

\* What OverpassClient.query returns as data: None (NoData), or the decoded
\* answer, a dict that has an elements list or not.
NoData == [failed |-> TRUE]
ElementsOf(answer) == DictGet(answer, "elements", <<>>)

\* data and data.get("elements"), answer being data
HasElements(answer) == Len(ElementsOf(answer)) > 0

\* The best child whatever its score.
InnerHitAnyScore(best) == [osm_id |-> best.id, osm_type |-> best.type, score |-> 0]

\* _find_circuit_in_complex, lines 203-207: the best child, if it scores
\* above zero.
InnerHit(best) ==
    IF CircuitScore(best) > 0
    THEN [osm_id |-> best.id, osm_type |-> best.type, score |-> 0]
    ELSE NoHit

\* _find_circuit_in_complex, lines 197-209, on the data of its query.
ComplexResult(answer) ==
    IF HasElements(answer) THEN InnerHit(BestElement(ElementsOf(answer))) ELSE NoHit

\* OverpassClient._find_circuit_in_complex
FindCircuitInComplex(parent_id, up) ==
    ComplexResult(IF up THEN [elements |-> Children(parent_id)] ELSE NoData)

\* The complex test without the test of the score.
IsComplexByTags(best) ==
    \/ DictGet(best.tags, "type", None) \in {"site", "multipolygon"}
    \/ DictGet(best.tags, "leisure", None) = "sports_centre"

\* Lines 243-248, 303-308, 399-404: the complex test.
IsComplex(best) ==
    \/ CircuitScore(best) <= 0
    \/ DictGet(best.tags, "type", None) \in {"site", "multipolygon"}
    \/ DictGet(best.tags, "leisure", None) = "sports_centre"

\* The score of a fetched element, 0 when the fetch gave nothing.
ScoreOfFetched(el) == IF IsElement(el) THEN CircuitScore(el) ELSE 0

\* find_by_wikidata_tags_batch, lines 396-419: the entry of a Q-ID whose
\* best element is best, inner being the circuit found inside it.
TagHitOf(best, inner, up) ==
    IF IsComplex(best) /\ TruthyInt(inner.osm_id) /\ TruthyStr(inner.osm_type)
    THEN [osm_id |-> inner.osm_id, osm_type |-> inner.osm_type,
          score |-> ScoreOfFetched(GetGeometry(inner.osm_id, inner.osm_type, up))]
    ELSE [osm_id |-> best.id, osm_type |-> best.type, score |-> CircuitScore(best)]

TagHitBest(best, up) == TagHitOf(best, FindCircuitInComplex(best.id, up), up)

\* OverpassClient.find_by_wikidata_tags_batch, for one Q-ID of the batch:
\* (osm_id, osm_type, score).
TagHit(w, qid, up) ==
    IF up /\ w.tag[qid] # NoInt
    THEN TagHitBest(BestElement(<<OsmElements[w.tag[qid]]>>), up)
    ELSE NoHit

\* find_by_name, lines 300-318.
NameHitOf(best, inner) ==
    IF IsComplex(best) /\ TruthyInt(inner.osm_id)
    THEN inner
    ELSE [osm_id |-> best.id, osm_type |-> best.type, score |-> 0]

NameHitBest(best, up) == NameHitOf(best, FindCircuitInComplex(best.id, up))

\* find_by_name, lines 298-320, on the data of its query and of the query
\* of _find_circuit_in_complex.
FindByNameOf(answer, inner_answer) ==
    IF HasElements(answer)
    THEN NameHitOf(BestElement(ElementsOf(answer)), ComplexResult(inner_answer))
    ELSE NoHit

\* find_by_wikidata_tags_batch, lines 388-419, on the elements of one Q-ID.
TagHitsOf(answer, inner_answer, up) ==
    IF HasElements(answer)
    THEN TagHitOf(BestElement(ElementsOf(answer)), ComplexResult(inner_answer), up)
    ELSE NoHit

\* Whether the call goes into _find_circuit_in_complex (lines 310-314,
\* 406-410).
SearchesInside(answer) == HasElements(answer) /\ IsComplex(BestElement(ElementsOf(answer)))

\* ---- the three searches as calls on every answer ----
\* The longest element list of an answer.
MaxElements == 2

\* Elements a name or wikidata-tag query returns, and elements the query of
\* _find_circuit_in_complex returns.
OuterIds == {555, 556, 558, 562, 563, 564}
InnerIds == {555, 557, 559, 560, 561}

AnswersOver(ids) ==
    {NoData, EmptyDict}
    \cup {[elements |-> [k \in DOMAIN f |-> OsmElements[f[k]]]] :
             f \in UNION {[1..m -> ids] : m \in 0..MaxElements}}

FindCircuitInComplexCall ==
    /\ ov.call = "find_circuit_in_complex"
    /\ ov.out = Pending
    /\ ov' = [ov EXCEPT !.out = Returned([hit |-> ComplexResult(ov.inner),
                                          searched |-> FALSE])]
    /\ UNCHANGED <<storeVars, entryVars, scoreVars, queryVars, wd, th, fetchVars>>

FindByNameCall ==
    /\ ov.call = "find_by_name"
    /\ ov.out = Pending
    /\ ov' = [ov EXCEPT !.out = Returned([hit |-> FindByNameOf(ov.data, ov.inner),
                                          searched |-> SearchesInside(ov.data)])]
    /\ UNCHANGED <<storeVars, entryVars, scoreVars, queryVars, wd, th, fetchVars>>

FindByWikidataTagsCall ==
    /\ ov.call = "find_by_wikidata_tags_batch"
    /\ ov.out = Pending
    /\ ov' = [ov EXCEPT !.out = Returned([hit |-> TagHitsOf(ov.data, ov.inner, ov.up),
                                          searched |-> SearchesInside(ov.data)])]
    /\ UNCHANGED <<storeVars, entryVars, scoreVars, queryVars, wd, th, fetchVars>>

\* OverpassClient.find_by_name: (osm_id, osm_type); score is unused.
FindByName(w, name, up) ==
    IF up /\ w.name[name] # NoInt
    THEN NameHitBest(BestElement(<<OsmElements[w.name[name]]>>), up)
    ELSE NoHit

----------------------------------------------------------------------------
(* services.py: search_osm_id *)

AbsentOutcome ==
    [found |-> FALSE, osm_id |-> NoInt, osm_type |-> None, method |-> <<>>,
     wikidata_id |-> None]
SearchResult(osm_id, osm_type, method, wikidata_id) ==
    [found |-> TRUE, osm_id |-> osm_id, osm_type |-> osm_type, method |-> method,
     wikidata_id |-> wikidata_id]

\* x or default, on optional strings
OrStr(x, default) == IF TruthyStr(x) THEN x ELSE default

HasQid(all, qid) == \E k \in 1..Len(all) : all[k].qid = qid

\* all_qids[qid] = search_name for every Q-ID returned, known or not.
NewQidTakesLatestName(all, qid, search_name, primary) ==
    IF HasQid(all, qid)
    THEN [k \in 1..Len(all) |->
             IF all[k].qid = qid THEN [all[k] EXCEPT !.search_name = search_name]
             ELSE all[k]]
    ELSE Append(all, [qid |-> qid, search_name |-> search_name, primary |-> primary])

\* Lines 92-98: one returned Q-ID.  An entry keeps the search name that
\* first produced the Q-ID and whether that was the circuit name (i == 0),
\* i.e. membership in circuit_name_qids.
NewQid(all, qid, search_name, primary) ==
    IF HasQid(all, qid) THEN all
    ELSE Append(all, [qid |-> qid, search_name |-> search_name, primary |-> primary])

\* Lines 91-98: the Q-IDs one search returned, merged into all_qids.
RECURSIVE MergeQids(_, _, _, _, _)
MergeQids(all, qids, k, search_name, primary) ==
    IF k > Len(qids) THEN all
    ELSE MergeQids(NewQid(all, qids[k], search_name, primary),
                   qids, k + 1, search_name, primary)

\* Lines 87-98: one find_ids call per search name, in order.
RECURSIVE CollectQids(_, _, _, _, _)
CollectQids(w, names, up, i, all) ==
    IF i > Len(names) THEN all
    ELSE CollectQids(w, names, up, i + 1,
                     MergeQids(all, FindIds(w, names[i], up), 1, names[i], i = 1))

\* Lines 113-132: the candidate of one entry of the P402 batch result.
P402Candidate(acc, q_entry, p402_id, up) ==
    IF TruthyInt(p402_id) /\ p402_id \notin acc.checked
    THEN [cands |-> Append(acc.cands,
                       [osm_id |-> p402_id, osm_type |-> "relation",
                        qid |-> q_entry.qid, method |-> "P402",
                        search_name |-> q_entry.search_name,
                        score |-> ScoreOfFetched(GetGeometry(p402_id, "relation", up)) + 20,
                        from_circuit_name |-> q_entry.primary]),
          checked |-> acc.checked \cup {p402_id},
          calls |-> Append(acc.calls, "overpass.get_geometry"),
          name_queries |-> acc.name_queries]
    ELSE acc

\* Lines 112-132: the P402 candidates, in the order of the batch result.
RECURSIVE P402Step(_, _, _, _, _)
P402Step(all, p402_results, up, i, acc) ==
    IF i > Len(all) THEN acc
    ELSE P402Step(all, p402_results, up, i + 1,
                  P402Candidate(acc, all[i], p402_results[i], up))

\* The candidate of the batch result without the test on checked_osm_ids.
TagCandidateUnchecked(acc, q_entry, hit) ==
    IF TruthyInt(hit.osm_id) /\ TruthyStr(hit.osm_type)
    THEN [cands |-> Append(acc.cands,
                       [osm_id |-> hit.osm_id, osm_type |-> hit.osm_type,
                        qid |-> q_entry.qid, method |-> "wikidata_tag",
                        search_name |-> q_entry.search_name,
                        score |-> hit.score,
                        from_circuit_name |-> q_entry.primary]),
          checked |-> acc.checked \cup {hit.osm_id},
          calls |-> acc.calls,
          name_queries |-> acc.name_queries]
    ELSE acc

\* Lines 141-154: the candidate of one Q-ID of the batch result.
TagCandidate(acc, q_entry, hit) ==
    IF TruthyInt(hit.osm_id) /\ TruthyStr(hit.osm_type) /\ hit.osm_id \notin acc.checked
    THEN [cands |-> Append(acc.cands,
                       [osm_id |-> hit.osm_id, osm_type |-> hit.osm_type,
                        qid |-> q_entry.qid, method |-> "wikidata_tag",
                        search_name |-> q_entry.search_name,
                        score |-> hit.score,
                        from_circuit_name |-> q_entry.primary]),
          checked |-> acc.checked \cup {hit.osm_id},
          calls |-> acc.calls,
          name_queries |-> acc.name_queries]
    ELSE acc

\* Lines 138-154: the wikidata-tag candidates, in the order of the batch.
RECURSIVE TagStep(_, _, _, _, _)
TagStep(w, all, up, i, acc) ==
    IF i > Len(all) THEN acc
    ELSE TagStep(w, all, up, i + 1,
                 TagCandidate(acc, all[i], TagHit(w, all[i].qid, up)))

\* The test of line 161 without its second alternative.
ShouldTryNameSearchWhenEmpty(cands) == Len(cands) = 0

\* Line 161
ShouldTryNameSearch(cands) ==
    \/ Len(cands) = 0
    \/ /\ ~ \E k \in 1..Len(cands) : cands[k].from_circuit_name
       /\ SetMax({cands[k].score : k \in 1..Len(cands)}) < 50

\* Lines 171-188: the candidate of the name search.
NameCandidate(acc, search_name, hit, up) ==
    IF TruthyInt(hit.osm_id) /\ TruthyStr(hit.osm_type) /\ hit.osm_id \notin acc.checked
    THEN [cands |-> Append(acc.cands,
                       [osm_id |-> hit.osm_id, osm_type |-> hit.osm_type,
                        qid |-> "", method |-> "osm_name",
                        search_name |-> search_name,
                        score |-> ScoreOfFetched(GetGeometry(hit.osm_id, hit.osm_type, up)),
                        from_circuit_name |-> TRUE]),
          checked |-> acc.checked \cup {hit.osm_id},
          calls |-> Append(acc.calls, "overpass.get_geometry"),
          name_queries |-> acc.name_queries]
    ELSE acc

\* Lines 163-188: the name search with the circuit name.
NameStep(w, c, up, acc) ==
    NameCandidate([acc EXCEPT !.calls = Append(@, "overpass.find_by_name"),
                              !.name_queries = Append(@, SearchNames(c)[1])],
                  SearchNames(c)[1], FindByName(w, SearchNames(c)[1], up), up)

\* The sort key without its first component.
KeyGreaterScoreOnly(a, b) == a.score > b.score

\* The sort key (from_circuit_name, score): a > b as Python compares tuples.
KeyGreater(a, b) ==
    \/ a.from_circuit_name /\ ~b.from_circuit_name
    \/ a.from_circuit_name = b.from_circuit_name /\ a.score > b.score

\* The position x takes in an already sorted list: behind every element
\* whose key is not smaller (the sort is stable, reverse=True keeps the
\* order of equal keys).
InsertPos(sorted, x) ==
    LET before == {k \in 1..Len(sorted) : ~KeyGreater(x, sorted[k])}
    IN  IF before = {} THEN 1 ELSE SetMax(before) + 1

RECURSIVE SortFrom(_, _, _)
SortFrom(cands, i, sorted) ==
    IF i > Len(cands) THEN sorted
    ELSE LET pos == InsertPos(sorted, cands[i])
         IN  SortFrom(cands, i + 1,
                      SubSeq(sorted, 1, pos - 1) \o <<cands[i]>>
                          \o SubSeq(sorted, pos, Len(sorted)))

\* Line 197: candidates.sort(key=(from_circuit_name, score), reverse=True)
SortCandidates(cands) == SortFrom(cands, 1, <<>>)

\* Lines 210-213: one runner-up of the comment.
OtherOf(c) ==
    [osm_type |-> c.osm_type, osm_id |-> c.osm_id, search_name |-> c.search_name,
     qid_or_name |-> IF c.qid # "" THEN c.qid ELSE "name", score |-> c.score]

\* What a run needs from outside: the answer to the HEAD request of
\* verify_exists, whether Wikidata answers (wd) and whether Overpass does (op).
RunInputs == [verify : VerifyResponses, wd : BOOLEAN, op : BOOLEAN]

\* The arguments of a cache.set call.
SetArgs(osm_id, osm_type, wikidata_id, method, search_name, comment) ==
    [osm_id |-> osm_id, osm_type |-> osm_type, wikidata_id |-> wikidata_id,
     method |-> method, search_name |-> search_name, comment |-> comment]
NoArgs == SetArgs(NoInt, None, None, None, None, NoComment)

\* cache.set(name, *a)
SetWith(d, name, a, t) ==
    CacheSet(d, name, a.osm_id, a.osm_type, a.wikidata_id, a.method, a.search_name,
             a.comment, t)

NoInputs == [verify |-> "200", wd |-> TRUE, op |-> TRUE]

NoRun ==
    [name |-> None, path |-> "none", had |-> FALSE, before |-> EmptyDict,
     outcome |-> AbsentOutcome, calls |-> <<>>, all_qids |-> <<>>, found |-> <<>>,
     candidates |-> <<>>, tried_name |-> FALSE, name_queries |-> <<>>, set_args |-> NoArgs, at |-> 0,
     inputs |-> NoInputs, data |-> EmptyDict, saved |-> FALSE, save |-> "none"]

\* search_osm_id(circuit, cache, ...), at time t on the circuits dict d:
\*   path        where the run returned: "manual_absent" (line 63),
\*               "cache_hit" (line 72) or "resolved" (lines 229, 243, 248);
\*   had, before whether the store held a record of circuit.name when the
\*               run began, and that record;
\*   outcome     the returned SearchResult, or AbsentOutcome for None;
\*   calls       the client and cache calls made, in order;
\*   all_qids    all_qids with circuit_name_qids;
\*   found       candidates as appended (discovery order);
\*   candidates  candidates after the sort of line 197;
\*   name_queries the names find_by_name was called with, in order;
\*   set_args    the arguments of the cache.set call, at the time of the call;
\*   inputs      the answers the run was given;
\*   data, saved the circuits dict after the run, and whether save() ran;
\*   save        what that save() did to the file (SaveOutcomes).
\* Lines 105-154: the P402 and the wikidata-tag candidates, when a Q-ID
\* was found.
WikidataCandidates(w, all, inp, acc) ==
    IF Len(all) > 0
    THEN LET p402 == P402Step(all,
                         GetP402Batch(w, [i \in 1..Len(all) |-> all[i].qid], inp.wd),
                         inp.op, 1,
                         [acc EXCEPT !.calls = Append(@, "wikidata.get_p402_batch")])
         IN  TagStep(w, all, inp.op, 1,
                     [p402 EXCEPT !.calls =
                         Append(@, "overpass.find_by_wikidata_tags_batch")])
    ELSE acc

\* Lines 156-192: the name search, when line 161 asks for it.
NameCandidates(w, c, inp, acc) ==
    IF ShouldTryNameSearch(acc.cands) THEN NameStep(w, c, inp.op, acc) ELSE acc

\* The comment listing every candidate, the selected one included.
RunnersUpWithWinner(sorted) ==
    IF Len(sorted) > 1
    THEN AlsoFound([k \in 1..Len(sorted) |-> OtherOf(sorted[k])])
    ELSE NoComment

\* Lines 206-215: the comment listing the runners-up.
RunnersUp(sorted) ==
    IF Len(sorted) > 1
    THEN AlsoFound([k \in 1..(Len(sorted) - 1) |-> OtherOf(sorted[k + 1])])
    ELSE NoComment

\* Lines 217-225, 238-246: the arguments of the cache.set call.
SetArgsOf(sorted, all) ==
    IF Len(sorted) > 0
    THEN SetArgs(sorted[1].osm_id, sorted[1].osm_type,
                 IF sorted[1].qid # "" THEN sorted[1].qid ELSE None,
                 sorted[1].method, sorted[1].search_name, RunnersUp(sorted))
    ELSE IF Len(all) > 0
    THEN SetArgs(NoInt, None, all[1].qid, None, None, NoComment)
    ELSE SetArgs(NoInt, None, None, None, None, NoComment)

\* The returned value without the Q-ID of the winner.
OutcomeOfNameOnly(sorted) ==
    IF Len(sorted) > 0
    THEN SearchResult(sorted[1].osm_id, sorted[1].osm_type,
                      <<"Overpass name search">>, None)
    ELSE AbsentOutcome

\* Lines 227-234, 248: the returned value.
OutcomeOf(sorted) ==
    IF Len(sorted) > 0
    THEN SearchResult(sorted[1].osm_id, sorted[1].osm_type,
                      IF sorted[1].qid # "" THEN <<"Wikidata", sorted[1].method>>
                      ELSE <<"Overpass name search">>,
                      IF sorted[1].qid # "" THEN sorted[1].qid ELSE None)
    ELSE AbsentOutcome

\* Lines 194-248 on the candidates acc.cands.
Selected(early, d, all, acc, sorted, args, t) ==
    [early EXCEPT
        !.path = "resolved",
        !.outcome = OutcomeOf(sorted),
        !.calls = Append(acc.calls, "cache.set"),
        !.all_qids = all, !.found = acc.cands, !.candidates = sorted,
        !.tried_name = "overpass.find_by_name" \in {acc.calls[k] : k \in 1..Len(acc.calls)},
        !.name_queries = acc.name_queries,
        !.set_args = args,
        !.data = SetWith(d, early.name, args, t).data,
        !.saved = SetWith(d, early.name, args, t).saved]

\* The selection returning without cache.set when there is no candidate.
SelectStoresWinnerOnly(early, d, all, acc, sorted, t) ==
    IF Len(sorted) > 0
    THEN Selected(early, d, all, acc, sorted, SetArgsOf(sorted, all), t)
    ELSE [Selected(early, d, all, acc, sorted, NoArgs, t) EXCEPT
             !.calls = acc.calls, !.data = d, !.saved = FALSE]

Select(early, d, all, acc, sorted, t) ==
    Selected(early, d, all, acc, sorted, SetArgsOf(sorted, all), t)

\* Lines 81-248 with all_qids = all.
Resolve(early, c, d, w, inp, all, t) ==
    LET acc == NameCandidates(w, c, inp,
                   WikidataCandidates(w, all, inp,
                       [cands |-> <<>>, checked |-> {}, calls |-> early.calls,
                        name_queries |-> <<>>]))
    IN  Select(early, d, all, acc, SortCandidates(acc.cands), t)

\* The run without the cache check: every run resolves anew.
CacheCheckSkipped(early, cached, c, d, w, inp, t) ==
    Resolve([early EXCEPT !.calls =
                [i \in 1..Len(SearchNames(c)) |-> "wikidata.find_ids"]],
            c, d, w, inp, CollectQids(w, SearchNames(c), inp.wd, 1, <<>>), t)

\* The cache check storing the record anew on a hit.
CacheCheckRefreshes(early, cached, c, d, w, inp, t) ==
    IF early.had /\ TruthyInt(cached.osm_id) /\ VerifyExists(inp.verify)
    THEN [early EXCEPT
             !.path = "cache_hit",
             !.calls = <<"osm.verify_exists">>,
             !.outcome = SearchResult(cached.osm_id, OrStr(cached.osm_type, "relation"),
                             <<"cache", OrStr(cached.search_method, "cached")>>,
                             cached.wikidata_id),
             !.data = Put(d, c.name, Put(d[c.name], "verified_at", FormatMinute(t))),
             !.saved = TRUE]
    ELSE CacheCheckSkipped(early, cached, c, d, w, inp, t)

\* Lines 54-79 on the record cached of the store.
CacheCheck(early, cached, c, d, w, inp, t) ==
    IF early.had /\ cached.osm_id = NoInt /\ cached.manual
    THEN [early EXCEPT !.path = "manual_absent"]
    ELSE IF early.had /\ TruthyInt(cached.osm_id) /\ VerifyExists(inp.verify)
    THEN [early EXCEPT
             !.path = "cache_hit",
             !.calls = <<"osm.verify_exists">>,
             !.outcome = SearchResult(cached.osm_id, OrStr(cached.osm_type, "relation"),
                             <<"cache", OrStr(cached.search_method, "cached")>>,
                             cached.wikidata_id)]
    ELSE Resolve([early EXCEPT !.calls =
                     (IF early.had /\ TruthyInt(cached.osm_id)
                      THEN <<"osm.verify_exists">> ELSE <<>>)
                     \o [i \in 1..Len(SearchNames(c)) |-> "wikidata.find_ids"]],
                 c, d, w, inp, CollectQids(w, SearchNames(c), inp.wd, 1, <<>>), t)

SearchOsmId(c, d, w, inp, t) ==
    CacheCheck([NoRun EXCEPT !.name = c.name, !.had = c.name \in DOMAIN d,
                             !.before = DictGet(d, c.name, EmptyDict),
                             !.at = t, !.inputs = inp, !.data = d],
               Get(d, c.name), c, d, w, inp, t)

\* The run without the circuits dict (which is the variable data).
Trace(r) == [k \in DOMAIN r \ {"data"} |-> r[k]]

----------------------------------------------------------------------------
(* services.py: process_circuit *)

\* Versions OsmClient.get_version answers: None (NoInt) or 1..MaxVersion.
MaxVersion == 2
Versions == {NoInt} \cup 1..MaxVersion

NoProcess == [kind |-> "none", success |-> FALSE, is_skipped |-> FALSE]
ProcessResult(kind, success, is_skipped) ==
    [kind |-> kind, success |-> success, is_skipped |-> is_skipped]

\* What process_circuit needs from outside after the search:
\*   version_check  the answer of get_version at line 357 (update check);
\*   version_after  the answer of get_version at line 403 (after the write);
\*   features       whether element_to_geojson yields a feature;
\*   write_ok       whether atomic_write of the geojson succeeds;
\*   save           what the save() of update_version does.
\* An input that is not consulted is left at its first value.
PostInputs ==
    {p \in [version_check : Versions, version_after : Versions, features : BOOLEAN,
            write_ok : BOOLEAN, save : SaveOutcomes] :
        /\ ~p.features => ~p.write_ok
        /\ ~p.write_ok => p.version_after = NoInt /\ p.save = "ok"
        /\ p.version_check # NoInt => p.version_after = NoInt
        /\ (p.version_check = NoInt /\ p.version_after = NoInt) => p.save = "ok"}

\* process_circuit from line 315 on: r is the finished search, f the file
\* after it.  Gives the circuits dict, the file, the process state, the
\* geojson files and the ProcessResult.
AfterSearch(c, check_update, r, f, outs, op, p) ==
    LET cached == Get(r.data, c.name)
        res == r.outcome
        checking == c.name \in outs /\ check_update
        local_ver == IF IsEntry(cached) THEN cached.osm_version ELSE NoInt
        remote_ver0 == IF checking THEN p.version_check ELSE NoInt
        fetched == GetGeometry(res.osm_id, res.osm_type, op)
        remote_ver == IF remote_ver0 = NoInt THEN p.version_after ELSE remote_ver0
        upd == IF TruthyInt(remote_ver)
               THEN UpdateVersion(r.data, c.name, remote_ver)
               ELSE [data |-> r.data, saved |-> FALSE]
        stay == [data |-> r.data, file |-> f, proc |-> "running", outfiles |-> outs,
                 presult |-> NoProcess]
    IN  IF ~res.found
        THEN [stay EXCEPT !.presult =
                 IF IsEntry(cached) /\ cached.manual /\ cached.osm_id = NoInt
                 THEN ProcessResult("manual_skip", FALSE, FALSE)
                 ELSE IF IsEntry(cached) /\ TruthyStr(cached.wikidata_id)
                 THEN ProcessResult("not_in_osm", FALSE, FALSE)
                 ELSE ProcessResult("not_found", FALSE, FALSE)]
        ELSE IF checking /\ TruthyInt(local_ver) /\ TruthyInt(remote_ver0)
                /\ local_ver >= remote_ver0
        THEN [stay EXCEPT !.presult = ProcessResult("up_to_date", TRUE, TRUE)]
        ELSE IF ~IsElement(fetched)
        THEN [stay EXCEPT !.presult = ProcessResult("no_geometry", FALSE, FALSE)]
        ELSE IF ~p.features
        THEN [stay EXCEPT !.presult = ProcessResult("no_features", FALSE, FALSE)]
        ELSE IF ~p.write_ok
        THEN [stay EXCEPT !.presult = ProcessResult("write_failed", FALSE, FALSE)]
        ELSE [data |-> upd.data, file |-> FileAfter(f, upd, p.save),
              proc |-> ProcAfter(upd, p.save), outfiles |-> outs \cup {c.name},
              presult |-> ProcessResult("saved", TRUE, FALSE)]

----------------------------------------------------------------------------
(* services.py: process_circuit, lines 305-411, call by call of its clients,
   for one circuit whose record names an element that is edited upstream.
   dl.upstream  the version of the element at openstreetmap.org now;
   dl.cached    the version of the element in OverpassClient._geometry_cache
                (NoInt: not cached);
   dl.element   the version of the element get_geometry has returned;
   dl.remote_ver the local remote_ver;
   dl.written   the version of the element the geojson file was made from
                (NoInt: no file);
   dl.stored    osm_version of the record (NoInt: none);
   dl.result    the ProcessResult of the last call.                        *)

MaxUpstream == 3

\* What osm.get_version answers: the version upstream, or None on a failure.
GetVersionAnswers(up_version) == {up_version, NoInt}

Fetching(pc, result) == [dl EXCEPT !.pc = pc, !.result = result]

\* A process starts (the geometry cache is empty) and process_circuit is
\* called; scored: the search has scored the element, which puts its
\* geometry into the cache (services.py lines 118, 175).  Lines 305-310
\* return at once for an existing file without check_update.
BeginProcess ==
    /\ dl.pc = "idle"
    /\ \E check_update, scored \in BOOLEAN :
          dl' = IF dl.written # NoInt /\ ~check_update
                THEN [dl EXCEPT !.result = "already_exists"]
                ELSE [dl EXCEPT !.pc = "check", !.check_update = check_update,
                                !.cached = IF scored THEN dl.upstream ELSE NoInt,
                                !.element = NoInt, !.remote_ver = NoInt,
                                !.result = "none"]
    /\ UNCHANGED <<storeVars, entryVars, scoreVars, queryVars, clientVars, heap>>

\* Lines 352-366: the update check.
CheckVersion ==
    /\ dl.pc = "check"
    /\ IF dl.written # NoInt /\ dl.check_update
       THEN \E remote_ver \in GetVersionAnswers(dl.upstream) :
               dl' = IF TruthyInt(dl.stored) /\ TruthyInt(remote_ver)
                        /\ dl.stored >= remote_ver
                     THEN [Fetching("idle", "up_to_date") EXCEPT !.remote_ver = remote_ver]
                     ELSE [Fetching("geometry", "none") EXCEPT !.remote_ver = remote_ver]
       ELSE dl' = Fetching("geometry", "none")
    /\ UNCHANGED <<storeVars, entryVars, scoreVars, queryVars, clientVars, heap>>

\* Lines 369-383 with overpass.py lines 334-350: the geometry, from the
\* cache when it is there.
FetchGeometry ==
    /\ dl.pc = "geometry"
    /\ \/ /\ dl.cached # NoInt
          /\ dl' = [Fetching("write", "none") EXCEPT !.element = dl.cached]
       \/ /\ dl.cached = NoInt
          /\ \/ dl' = [Fetching("write", "none") EXCEPT !.element = dl.upstream,
                                                        !.cached = dl.upstream]
             \/ dl' = Fetching("idle", "no_geometry")
    /\ UNCHANGED <<storeVars, entryVars, scoreVars, queryVars, clientVars, heap>>

\* Lines 386-400 and 413-419: the geojson is built and written.
WriteGeojson ==
    /\ dl.pc = "write"
    /\ \/ dl' = Fetching("idle", "no_features")
       \/ dl' = Fetching("idle", "write_failed")
       \/ dl' = [Fetching("store", "none") EXCEPT !.written = dl.element]
    /\ UNCHANGED <<storeVars, entryVars, scoreVars, queryVars, clientVars, heap>>

\* Lines 401-411: the version is read now unless the update check has read
\* it, and stored when it is truthy.
StoreVersion ==
    /\ dl.pc = "store"
    /\ \E answer \in GetVersionAnswers(dl.upstream) :
          LET remote_ver == IF dl.remote_ver = NoInt THEN answer ELSE dl.remote_ver
          IN  dl' = [Fetching("idle", "saved") EXCEPT
                        !.remote_ver = remote_ver,
                        !.stored = IF TruthyInt(remote_ver) THEN remote_ver ELSE @]
    /\ UNCHANGED <<storeVars, entryVars, scoreVars, queryVars, clientVars, heap>>

\* A mapper edits the element: its version goes up by one.
UpstreamEdit ==
    /\ dl.pc # "none"
    /\ dl.upstream < MaxUpstream
    /\ dl' = [dl EXCEPT !.upstream = @ + 1]
    /\ UNCHANGED <<storeVars, entryVars, scoreVars, queryVars, clientVars, heap>>

----------------------------------------------------------------------------
(* The store and the pipeline as a state machine *)

\* Records as the operator writes them into circuit_mappings.json: the
\* forms the program prints (cli.py lines 138-142, services.py lines 322, 347).
OperatorRecords ==
    {[osm_id |-> 555, wikidata_id |-> "Q1", manual |-> TRUE],
     [osm_id |-> 558, osm_type |-> "way", manual |-> TRUE],
     [osm_id |-> NoInt, manual |-> TRUE]}

\* The circuits of the csv file the processes run on, and the records the
\* operator writes for them.
SpecCircuits == {Circuit1}
SpecNames == {c.name : c \in SpecCircuits}
SpecRecords ==
    {[osm_id |-> 555, wikidata_id |-> "Q1", manual |-> TRUE],
     [osm_id |-> NoInt, manual |-> TRUE]}

\* Arguments CircuitCache.set is called with directly.
DirectSetArgs ==
    {SetArgs(558, "way", None, "osm_name", Circuit1.name, EmptyComment),
     SetArgs(NoInt, None, "Q1", None, None, NoComment)}

\* CircuitCache.__init__ and _load on the file f: the circuits dict, and
\* the file after the save() of line 63 (only a missing file is saved).
\* A file that is not JSON ("partial") raises JSONDecodeError in json.load,
\* which line 57 catches.  A file that is JSON but not an object
\* ("not_object": a list, a number, a string) passes json.load and raises
\* TypeError in {**DEFAULT_CACHE, **data} at line 52, which line 57 does not
\* catch: the constructor raises and run() ends.
Load(f, outcome) ==
    [data |-> IF f.status = "ok" THEN f.circuits ELSE EmptyDict,
     file |-> IF f.status = "missing" THEN Save(f, EmptyDict, outcome) ELSE f,
     proc |-> IF f.status = "missing" /\ outcome = "interrupted" THEN "stopped"
              ELSE IF f.status = "not_object" THEN "failed"
              ELSE "running"]

MissingFile == [status |-> "missing", circuits |-> EmptyDict]

\* The record an earlier run has stored for the other circuit.
OtherRecord ==
    ToDict(BuildEntry(558, "way", None, "osm_name", Circuit2.name, NoComment, 0))

\* The files a first process can find.
InitFiles ==
    {MissingFile, [status |-> "ok", circuits |-> EmptyDict],
     [status |-> "ok", circuits |-> Put(EmptyDict, Circuit2.name, OtherRecord)]}
    \cup {[status |-> "ok", circuits |-> Put(EmptyDict, Circuit1.name, rec)] :
             rec \in SpecRecords}

\* A process starts: run() builds the cache and the clients.
Construct ==
    /\ proc # "running"
    /\ \E so \in IF file.status = "missing" THEN SaveOutcomes ELSE {"ok"} :
          LET l == Load(file, so)
          IN  data' = l.data /\ file' = l.file /\ proc' = l.proc
    /\ run' = NoRun
    /\ presult' = NoProcess
    /\ lastOp' = "construct"
    /\ UNCHANGED <<world, now, outfiles>>
    /\ UNCHANGED otherVars

\* run() returns after the loop over the circuits (cli.py lines 116-142)
\* and the process ends: its circuits dict is gone.
Exit ==
    /\ proc = "running"
    /\ proc' = "stopped"
    /\ data' = EmptyDict
    /\ run' = NoRun
    /\ presult' = NoProcess
    /\ lastOp' = "exit"
    /\ UNCHANGED <<world, file, now, outfiles>>
    /\ UNCHANGED otherVars

\* Between two runs the operator edits the file: writes a record.
OperatorEdit ==
    /\ proc # "running"
    /\ file.status = "ok"
    /\ \E n \in SpecNames, rec \in SpecRecords :
          file' = [file EXCEPT !.circuits = Put(@, n, rec)]
    /\ lastOp' = "operator_edit"
    /\ UNCHANGED <<world, data, proc, now, run, presult, outfiles>>
    /\ UNCHANGED otherVars

\* While a process is running, the file is written by someone else: the
\* operator, or a second process of the program, stores a record.
EditWhileRunning ==
    /\ proc = "running"
    /\ file.status = "ok"
    /\ \E n \in Names, rec \in SpecRecords :
          file' = [file EXCEPT !.circuits = Put(@, n, rec)]
    /\ lastOp' = "edit_while_running"
    /\ UNCHANGED <<world, data, proc, now, run, presult, outfiles>>
    /\ UNCHANGED otherVars

\* Between two runs the file is replaced by JSON that is not an object.
OperatorWritesList ==
    /\ proc # "running"
    /\ file.status \in {"ok", "partial"}
    /\ file' = [status |-> "not_object", circuits |-> EmptyDict]
    /\ lastOp' = "operator_edit"
    /\ UNCHANGED <<world, data, proc, now, run, presult, outfiles>>
    /\ UNCHANGED otherVars

\* cache.set(n, *a), called directly.
SetCall ==
    /\ proc = "running"
    /\ \E n \in SpecNames, a \in DirectSetArgs :
          LET res == SetWith(data, n, a, now)
          IN  \E so \in IF res.saved THEN SaveOutcomes ELSE {"ok"} :
              /\ data' = res.data
              /\ file' = FileAfter(file, res, so)
              /\ proc' = ProcAfter(res, so)
              /\ run' = [NoRun EXCEPT !.name = n, !.path = "set",
                                      !.set_args = a, !.at = now,
                                      !.saved = res.saved]
    /\ presult' = NoProcess
    /\ lastOp' = "set"
    /\ UNCHANGED <<world, now, outfiles>>
    /\ UNCHANGED otherVars

\* cache.update_version(n, v), called directly.
UpdateVersionCall ==
    /\ proc = "running"
    /\ \E n \in SpecNames, v \in 1..MaxVersion :
          LET res == UpdateVersion(data, n, v)
          IN  \E so \in IF res.saved THEN SaveOutcomes ELSE {"ok"} :
              /\ data' = res.data
              /\ file' = FileAfter(file, res, so)
              /\ proc' = ProcAfter(res, so)
              /\ run' = [NoRun EXCEPT !.name = n, !.path = "update_version",
                                      !.saved = res.saved]
    /\ presult' = NoProcess
    /\ lastOp' = "update_version"
    /\ UNCHANGED <<world, now, outfiles>>
    /\ UNCHANGED otherVars

\* The answers a run of search_osm_id on the circuits dict d consults; an
\* answer that is not asked for is left at its first value.  forProcess:
\* the run is part of process_circuit, which asks Overpass for the geometry
\* of a cache hit.
SearchInputs(c, d, forProcess) ==
    LET cached == Get(d, c.name)
        has == IsEntry(cached)
        manual_absent == has /\ cached.osm_id = NoInt /\ cached.manual
        verify_asked == has /\ TruthyInt(cached.osm_id)
    IN  {inp \in RunInputs :
            /\ ~verify_asked => inp.verify = "200"
            /\ manual_absent => inp.wd /\ inp.op
            /\ (verify_asked /\ VerifyExists(inp.verify)) =>
                  inp.wd /\ (forProcess \/ inp.op)}

\* The answers process_circuit consults after the search r.
PostInputsOf(c, check_update, r, outs, op) ==
    LET res == r.outcome
        checking == c.name \in outs /\ check_update
        cached == Get(r.data, c.name)
        local_ver == IF IsEntry(cached) THEN cached.osm_version ELSE NoInt
        first == [version_check |-> NoInt, version_after |-> NoInt,
                  features |-> FALSE, write_ok |-> FALSE, save |-> "ok"]
    IN  IF ~res.found
        THEN {first}
        ELSE {p \in PostInputs :
                /\ ~checking => p.version_check = NoInt
                /\ ( \/ (checking /\ TruthyInt(local_ver) /\ TruthyInt(p.version_check)
                           /\ local_ver >= p.version_check)
                     \/ ~IsElement(GetGeometry(res.osm_id, res.osm_type, op)) )
                   => p = [first EXCEPT !.version_check = p.version_check]}

\* The store, the file and the process after the run r of search_osm_id.
SearchDone(r) ==
    \E so \in IF r.saved THEN SaveOutcomes ELSE {"ok"} :
       /\ data' = r.data
       /\ file' = FileAfter(file, r, so)
       /\ proc' = ProcAfter(r, so)
       /\ run' = [Trace(r) EXCEPT !.save = IF r.saved THEN so ELSE "none"]

\* search_osm_id(c, ...) as the first call of a process.
SearchCall ==
    /\ proc = "running"
    /\ lastOp = "construct"
    /\ \E c \in Circuits :
       \E inp \in SearchInputs(c, data, FALSE) :
          SearchDone(SearchOsmId(c, data, world, inp, now))
    /\ presult' = NoProcess
    /\ lastOp' = "search_osm_id"
    /\ UNCHANGED <<world, now, outfiles>>
    /\ UNCHANGED otherVars

\* process_circuit(c, ...) when the geojson exists and no update check is
\* asked for: lines 305-310.
ProcessAlreadyExists ==
    /\ proc = "running"
    /\ \E c \in SpecCircuits :
          /\ c.name \in outfiles
          /\ presult' = ProcessResult("already_exists", TRUE, TRUE)
    /\ lastOp' = "process_circuit"
    /\ UNCHANGED <<world, data, file, proc, now, run, outfiles>>
    /\ UNCHANGED otherVars

\* The state process_circuit leaves, a being the result of AfterSearch.
ProcessDone(a) ==
    /\ data' = a.data
    /\ file' = a.file
    /\ proc' = a.proc
    /\ presult' = a.presult
    /\ outfiles' = a.outfiles

\* process_circuit after its search r, whose save() did so.  A save() that
\* is interrupted ends the process there.
ProcessFrom(c, check_update, inp, r, so) ==
    IF ProcAfter(r, so) = "stopped"
    THEN ProcessDone([data |-> r.data, file |-> FileAfter(file, r, so),
                      proc |-> "stopped", presult |-> NoProcess,
                      outfiles |-> outfiles])
    ELSE \E p \in PostInputsOf(c, check_update, r, outfiles, inp.op) :
            ProcessDone(AfterSearch(c, check_update, r, FileAfter(file, r, so),
                                    outfiles, inp.op, p))

ProcessSearched(c, check_update, inp, r) ==
    /\ run' = [NoRun EXCEPT !.name = c.name, !.path = r.path,
                            !.had = r.had, !.before = r.before]
    /\ \E so \in IF r.saved THEN SaveOutcomes ELSE {"ok"} :
          ProcessFrom(c, check_update, inp, r, so)

\* process_circuit(c, ..., check_update) from line 313 on.
ProcessCall ==
    /\ proc = "running"
    /\ \E c \in SpecCircuits, check_update \in BOOLEAN :
          /\ c.name \in outfiles => check_update
          /\ \E inp \in SearchInputs(c, data, TRUE) :
                ProcessSearched(c, check_update, inp,
                                SearchOsmId(c, data, world, inp, now))
    /\ lastOp' = "process_circuit"
    /\ UNCHANGED <<world, now>>
    /\ UNCHANGED otherVars

\* Wikidata payloads find_ids raises on.
MalformedPayloads ==
    {[kind |-> "not-object"],
     [kind |-> "object", search |-> <<[id |-> "Q2", description |-> NullDescription]>>]}

\* The run of search_osm_id gets as far as the first find_ids (line 89).
ReachesFindIds(r) == \E k \in 1..Len(r.calls) : r.calls[k] = "wikidata.find_ids"

\* process_circuit(c, ...) when Wikidata answers the find_ids of line 89
\* with a payload the call raises on.  Neither search_osm_id nor
\* process_circuit nor the loop of run() (cli.py lines 89-114) has a
\* handler: the exception ends run() before cache.set is reached.
ProcessRaises ==
    /\ proc = "running"
    /\ \E c \in SpecCircuits, check_update \in BOOLEAN, resp \in MalformedPayloads :
          /\ c.name \in outfiles => check_update
          /\ FindIdsOf(resp) = Raised
          /\ \E inp \in SearchInputs(c, data, TRUE) :
                ReachesFindIds(SearchOsmId(c, data, world, inp, now))
          /\ run' = [NoRun EXCEPT !.name = c.name, !.path = "raised"]
    /\ proc' = "failed"
    /\ presult' = NoProcess
    /\ lastOp' = "process_circuit"
    /\ UNCHANGED <<world, data, file, now, outfiles>>
    /\ UNCHANGED otherVars

----------------------------------------------------------------------------
(* Specifications *)

\* The worlds the store specification runs in.
SpecWorlds ==
    {WorldOf(f1, fgp, <<>>, p1, NoInt, NoInt, t2, n1, NoInt) :
        f1 \in {<<"Q1">>}, fgp \in {<<>>}, p1 \in {NoInt, 555},
        t2 \in {NoInt}, n1 \in {NoInt}}

IdleWorld == WorldOf(<<>>, <<>>, <<>>, NoInt, NoInt, NoInt, NoInt, NoInt, NoInt)

StoreIdle ==
    /\ world = IdleWorld
    /\ data = EmptyDict
    /\ file = MissingFile
    /\ proc = "stopped"
    /\ now = 0
    /\ lastOp = "none"
    /\ run = NoRun
    /\ presult = NoProcess
    /\ outfiles = {}

EntryIdle == entry = NoEntry /\ entryDict = [unset |-> TRUE] /\ entryBack = NoEntry
ScoreIdle == element = NoElement /\ score = Unscored
QueryIdleInit == q = QueryIdle(0, None)
WdIdle == [call |-> "none"]
ThrottleIdle == [q |-> [pc |-> "none"]]
OvIdle == [call |-> "none"]
ClientIdle == wd = WdIdle /\ th = ThrottleIdle /\ ov = OvIdle
DlIdle == [pc |-> "none"]
HeapIdle == [made |-> FALSE]
FetchIdle == dl = DlIdle /\ heap = HeapIdle

\* The state after run() has built the cache from the file it found.
Init ==
    /\ world \in SpecWorlds
    /\ \E f \in InitFiles, so \in SaveOutcomes :
          /\ f.status # "missing" => so = "ok"
          /\ data = Load(f, so).data
          /\ file = Load(f, so).file
          /\ proc = Load(f, so).proc
    /\ now \in {0, MaxTime}
    /\ lastOp = "construct"
    /\ run = NoRun
    /\ presult = NoProcess
    /\ outfiles = {}
    /\ EntryIdle /\ ScoreIdle /\ QueryIdleInit
    /\ ClientIdle
    /\ FetchIdle

Next ==
    \/ Construct
    \/ Exit
    \/ OperatorEdit
    \/ SetCall
    \/ UpdateVersionCall
    \/ ProcessAlreadyExists
    \/ ProcessCall
    \/ ProcessRaises
    \/ OperatorWritesList

Spec == Init /\ [][Next]_vars

\* ---- search_osm_id ----
\* The worlds of the search runs.  P402 and tag of a Q-ID no search returns
\* are never asked for and stay empty.
SearchWorlds ==
    {w \in {WorldOf(f1, fgp, <<>>, p1, p2, t1, t2, n1, 558) :
               f1 \in {<<>>, <<"Q1">>, <<"Q1", "Q2">>},
               fgp \in {<<>>, <<"Q2">>, <<"Q2", "Q1">>},
               p1 \in {NoInt, 555}, p2 \in {NoInt, 555},
               t1 \in {NoInt, 556, 558}, t2 \in {NoInt, 555, 559},
               n1 \in {NoInt, 556, 558, 564}} :
        \A x \in Qids \ Listed(w) : w.p402[x] = NoInt /\ w.tag[x] = NoInt}

\* ---- runs on a store that holds records of other names ----
\* The store holds at most a record of the circuit, and records keyed by
\* the other circuit's name and by the circuit's Grand Prix name.
KeyWorlds ==
    {w \in {WorldOf(f1, <<>>, <<>>, p1, NoInt, NoInt, NoInt, n1, 558) :
               f1 \in {<<>>, <<"Q1">>}, p1 \in {NoInt, 555}, n1 \in {NoInt, 558}} :
        \A x \in Qids \ Listed(w) : w.p402[x] = NoInt /\ w.tag[x] = NoInt}

OtherKeys ==
    {EmptyDict,
     Put(Put(EmptyDict, Circuit2.name, [osm_id |-> 558, osm_type |-> "way", manual |-> TRUE]),
         Circuit1.grands_prix[1], [osm_id |-> 559, osm_type |-> "way", manual |-> TRUE])}

KeyStores ==
    OtherKeys \cup {Put(d, Circuit1.name, rec) : d \in OtherKeys, rec \in SpecRecords}

InitKeys ==
    /\ world \in KeyWorlds
    /\ data \in KeyStores
    /\ file = [status |-> "ok", circuits |-> data]
    /\ proc = "running"
    /\ now = 0
    /\ lastOp = "construct"
    /\ run = NoRun
    /\ presult = NoProcess
    /\ outfiles = {}
    /\ EntryIdle /\ ScoreIdle /\ QueryIdleInit
    /\ ClientIdle
    /\ FetchIdle

NextKeys == SearchCall \/ ProcessCall

SpecKeys == InitKeys /\ [][NextKeys]_vars

\* Records an earlier run has stored at time 0 (cache.set, lines 112-129).
StoredRecords ==
    {ToDict(BuildEntry(555, "relation", "Q1", "P402", Circuit1.name, NoComment, 0)),
     ToDict(BuildEntry(558, "way", None, "osm_name", Circuit1.name, NoComment, 0))}

\* The stores a search run starts from: empty, or one record, written by
\* the operator or by an earlier run.
SearchStores ==
    {EmptyDict}
    \cup {Put(EmptyDict, Circuit1.name, rec) : rec \in OperatorRecords \cup StoredRecords}

InitSearch ==
    /\ world \in SearchWorlds
    /\ data \in SearchStores
    /\ file = [status |-> "ok", circuits |-> data]
    /\ proc = "running"
    /\ now \in {0, MaxTime}
    /\ lastOp = "construct"
    /\ run = NoRun
    /\ presult = NoProcess
    /\ outfiles = {}
    /\ EntryIdle /\ ScoreIdle /\ QueryIdleInit
    /\ ClientIdle
    /\ FetchIdle

NextSearch == SearchCall

SpecSearch == InitSearch /\ [][NextSearch]_vars

\* ---- OverpassClient.query ----
InitQuery ==
    /\ q \in {QueryIdle(mr, None) : mr \in 0..MaxRetriesCap}
    /\ StoreIdle /\ EntryIdle /\ ScoreIdle
    /\ ClientIdle
    /\ FetchIdle

NextQuery ==
    \/ StartQuery
    \/ Resp200
    \/ Resp200Undecodable
    \/ Resp200UndecodableRaises
    \/ Resp429
    \/ Resp504
    \/ RespOtherStatus
    \/ RespTimeout
    \/ RespConnectionError
    \/ NewClient

SpecQuery == InitQuery /\ [][NextQuery]_vars

\* Every request is answered: session.post is given a timeout (line 69),
\* so a server that stays silent ends in requests.exceptions.Timeout.
Answer ==
    \/ Resp200
    \/ Resp200Undecodable
    \/ Resp200UndecodableRaises
    \/ Resp429
    \/ Resp504
    \/ RespOtherStatus
    \/ RespTimeout
    \/ RespConnectionError

SpecQueryAnswered == SpecQuery /\ WF_vars(Answer)

\* ---- OverpassClient._circuit_score ----
ScoreCall ==
    /\ ~score.scored
    /\ score' = [scored |-> TRUE, value |-> CircuitScore(element)]
    /\ UNCHANGED <<element, storeVars, entryVars, queryVars, clientVars, fetchVars>>

InitScore ==
    /\ element \in ScoreElements
    /\ score = Unscored
    /\ StoreIdle /\ EntryIdle /\ QueryIdleInit
    /\ ClientIdle
    /\ FetchIdle

NextScore == ScoreCall

SpecScore == InitScore /\ [][NextScore]_vars

\* ---- CacheEntry.to_dict / from_dict ----
Entries ==
    [osm_id : {NoInt, 0, 555}, osm_type : {None, "relation", "way"},
     wikidata_id : {None, "Q1"}, search_method : {None, "P402"},
     search_name : {None, Circuit1.name}, verified_at : {EmptyStamp, 0},
     manual : BOOLEAN,
     comment : {NoComment, EmptyComment, OperatorNote, TodoComment("Q1")},
     osm_version : {NoInt, 0, 3}]

NotYet == [unset |-> TRUE]

ToDictCall ==
    /\ IsEntry(entry)
    /\ entryDict = NotYet
    /\ entryDict' = ToDict(entry)
    /\ UNCHANGED <<entry, entryBack, storeVars, scoreVars, queryVars, clientVars, fetchVars>>

FromDictCall ==
    /\ entryDict # NotYet
    /\ entryBack = NoEntry
    /\ entryBack' = FromDict(entryDict)
    /\ UNCHANGED <<entry, entryDict, storeVars, scoreVars, queryVars, clientVars, fetchVars>>

\* cache.get(n) for the name of the set call before it.
GetCall ==
    /\ proc = "running"
    /\ lastOp = "set"
    /\ entryBack' = Get(data, run.name)
    /\ lastOp' = "get"
    /\ UNCHANGED <<world, data, file, proc, now, run, presult, outfiles>>
    /\ UNCHANGED <<entry, entryDict, scoreVars, queryVars, clientVars, fetchVars>>

\* Either an entry to serialise, or a process with an empty store on which
\* set and get are called.
InitEntry ==
    /\ \/ /\ entry \in Entries
          /\ StoreIdle
       \/ /\ entry = NoEntry
          /\ world = IdleWorld
          /\ data = EmptyDict
          /\ file = [status |-> "ok", circuits |-> EmptyDict]
          /\ proc = "running"
          /\ now \in 0..MaxTime
          /\ lastOp = "construct"
          /\ run = NoRun
          /\ presult = NoProcess
          /\ outfiles = {}
    /\ entryDict = NotYet
    /\ entryBack = NoEntry
    /\ ScoreIdle /\ QueryIdleInit
    /\ ClientIdle
    /\ FetchIdle

NextEntry == ToDictCall \/ FromDictCall \/ SetCall \/ GetCall

SpecEntry == InitEntry /\ [][NextEntry]_vars

\* ---- the two calls, each on every response ----
InitWikidata ==
    /\ wd \in {[call |-> "find_ids", qids |-> <<>>, response |-> r, out |-> Pending] :
                  r \in FindResponses}
             \cup {[call |-> "get_p402_batch", qids |-> qs, response |-> r,
                    out |-> Pending] : qs \in BatchQids, r \in BatchResponses}
    /\ th = ThrottleIdle
    /\ ov = OvIdle
    /\ StoreIdle /\ EntryIdle /\ ScoreIdle /\ QueryIdleInit
    /\ FetchIdle

NextWikidata == FindIdsCall \/ GetP402BatchCall

SpecWikidata == InitWikidata /\ [][NextWikidata]_vars

\* ---- the Overpass searches, each on every answer ----
InitHits ==
    /\ ov \in {[call |-> "find_circuit_in_complex", data |-> NoData, inner |-> i,
                 up |-> TRUE, out |-> Pending] : i \in AnswersOver(InnerIds)}
             \cup {[call |-> c, data |-> d, inner |-> i, up |-> u, out |-> Pending] :
                     c \in {"find_by_name", "find_by_wikidata_tags_batch"},
                     d \in AnswersOver(OuterIds), i \in AnswersOver(InnerIds),
                     u \in BOOLEAN}
    /\ wd = WdIdle /\ th = ThrottleIdle
    /\ StoreIdle /\ EntryIdle /\ ScoreIdle /\ QueryIdleInit
    /\ FetchIdle

NextHits == FindCircuitInComplexCall \/ FindByNameCall \/ FindByWikidataTagsCall

SpecHits == InitHits /\ [][NextHits]_vars

\* ---- OverpassClient.query in time ----
InitThrottle ==
    /\ th = ThrottleStart(2)
    /\ wd = WdIdle
    /\ ov = OvIdle
    /\ StoreIdle /\ EntryIdle /\ ScoreIdle /\ QueryIdleInit
    /\ FetchIdle

NextThrottle ==
    \/ ThQuery
    \/ ThResp200
    \/ ThResp429
    \/ ThResp504
    \/ ThTimeout
    \/ ThBetweenCalls

SpecThrottle == InitThrottle /\ [][NextThrottle]_vars

\* ---- the store with a second writer of the file ----
NextShared ==
    \/ Construct
    \/ Exit
    \/ SetCall
    \/ UpdateVersionCall
    \/ EditWhileRunning

SpecShared == Init /\ [][NextShared]_vars

\* ---- process_circuit against an element edited upstream ----
InitFetch ==
    /\ dl \in {[pc |-> "idle", upstream |-> u, cached |-> NoInt, element |-> NoInt,
                 check_update |-> FALSE, remote_ver |-> NoInt, written |-> NoInt,
                 stored |-> NoInt, result |-> "none"] : u \in 1..2}
    /\ heap = HeapIdle
    /\ StoreIdle /\ EntryIdle /\ ScoreIdle /\ QueryIdleInit
    /\ ClientIdle

NextFetch ==
    \/ BeginProcess
    \/ CheckVersion
    \/ FetchGeometry
    \/ WriteGeojson
    \/ StoreVersion
    \/ UpstreamEdit

SpecFetch == InitFetch /\ [][NextFetch]_vars

\* ---- two CircuitCache objects in one process ----
(* cache.py: CircuitCache objects of one Python process.  dict.copy() and
   {**DEFAULT_CACHE, **data} copy the top level only, so the value of
   "circuits" in an instance's _data is either the dict object of
   DEFAULT_CACHE (shared) or the dict json.load has built (own).
   heap.default   DEFAULT_CACHE["circuits"];
   heap.files[i]  the file instance i is built on;
   heap.inst[i]   made: the constructor has returned; shared: its circuits
                  dict is the one of DEFAULT_CACHE; own: its circuits dict
                  otherwise; found: the status of the file when it was
                  built; loaded: the records read from the file; first: its
                  records when the constructor returned; through: the names
                  set() has stored through it.                             *)

Instances == {1, 2}

NoInstance ==
    [made |-> FALSE, shared |-> FALSE, own |-> EmptyDict, found |-> "none",
     loaded |-> EmptyDict, first |-> EmptyDict, through |-> {}]

\* The files an instance is built on: missing, not JSON, a JSON object
\* without the key "circuits", or a store with a record.
InstanceFiles ==
    {MissingFile,
     [status |-> "partial", circuits |-> EmptyDict],
     [status |-> "no_circuits", circuits |-> EmptyDict],
     [status |-> "ok", circuits |->
          Put(EmptyDict, Circuit2.name, [osm_id |-> 558, osm_type |-> "way", manual |-> TRUE])]}

\* self._data["circuits"] of instance i.
CircuitsOf(h, i) == IF h.inst[i].shared THEN h.default ELSE h.inst[i].own

\* save() of this section ends with the file written or with the OSError
\* that line 72 catches.
HeapSaveOutcomes == {"ok", "oserror"}

\* CircuitCache(path) for the file of instance i: lines 42-43 and _load.
\* Only {**DEFAULT_CACHE, **data} of a file that has the key "circuits"
\* gives the instance a circuits dict of its own.
NewCache ==
    /\ heap # HeapIdle
    /\ \E i \in Instances, so \in HeapSaveOutcomes :
          LET f == heap.files[i]
              shared == f.status # "ok"
              records == IF shared THEN heap.default ELSE f.circuits
          IN  /\ ~heap.inst[i].made
              /\ f.status # "missing" => so = "ok"
              /\ heap' = [heap EXCEPT
                    !.inst[i] = [made |-> TRUE, shared |-> shared,
                                 own |-> IF shared THEN EmptyDict ELSE f.circuits,
                                 found |-> f.status,
                                 loaded |-> IF shared THEN EmptyDict ELSE f.circuits,
                                 first |-> records, through |-> {}],
                    !.files[i] = IF f.status = "missing" THEN Save(f, records, so) ELSE f]
    /\ UNCHANGED <<storeVars, entryVars, scoreVars, queryVars, clientVars, dl>>

\* cache.set(n, *a) on instance i: line 129 assigns into the circuits dict
\* the instance refers to, and save() writes the instance's file.
SetOnInstance ==
    /\ heap # HeapIdle
    /\ \E i \in Instances, n \in Names, a \in DirectSetArgs, so \in HeapSaveOutcomes :
          LET res == SetWith(CircuitsOf(heap, i), n, a, 0)
          IN  /\ heap.inst[i].made
              /\ ~res.saved => so = "ok"
              /\ heap' = [heap EXCEPT
                    !.default = IF heap.inst[i].shared THEN res.data ELSE @,
                    !.inst[i].own = IF heap.inst[i].shared THEN @ ELSE res.data,
                    !.inst[i].through = IF res.saved THEN @ \cup {n} ELSE @,
                    !.files[i] = FileAfter(@, res, so)]
    /\ UNCHANGED <<storeVars, entryVars, scoreVars, queryVars, clientVars, dl>>

InitInstances ==
    /\ heap \in {[made |-> TRUE, default |-> EmptyDict,
                   inst |-> [i \in Instances |-> NoInstance],
                   files |-> fs] : fs \in [Instances -> InstanceFiles]}
    /\ dl = DlIdle
    /\ StoreIdle /\ EntryIdle /\ ScoreIdle /\ QueryIdleInit
    /\ ClientIdle

NextInstances == NewCache \/ SetOnInstance

SpecInstances == InitInstances /\ [][NextInstances]_vars

----------------------------------------------------------------------------
(* Properties *)

WikidataOrOverpassCalls ==
    {"wikidata.find_ids", "wikidata.get_p402_batch", "overpass.get_geometry",
     "overpass.find_by_wikidata_tags_batch", "overpass.find_by_name"}

CallsMade == {run.calls[k] : k \in 1..Len(run.calls)}

\* The run of search_osm_id in run began on a record with a non-null
\* osm_id, and the existence check answered true.
RanOnVerifiedRecord ==
    /\ lastOp = "search_osm_id"
    /\ run.had
    /\ FromDict(run.before).osm_id # NoInt
    /\ run.inputs.verify \in {"200", "network-error"}

\* C1 as stated: on a record with a non-null osm_id whose existence check is
\* true, search_osm_id returns the osm_id and the osm_type of the record and
\* calls neither Wikidata nor the Overpass search or geometry.
C1_ReturnsRecordTypeAsStored ==
    RanOnVerifiedRecord =>
        /\ run.outcome.found
        /\ run.outcome.osm_id = FromDict(run.before).osm_id
        /\ run.outcome.osm_type = FromDict(run.before).osm_type
        /\ CallsMade \cap WikidataOrOverpassCalls = {}

\* C1: on a record with a non-null osm_id whose existence check is true,
\* search_osm_id returns the osm_id of the record and its osm_type, or
\* "relation" when the record has no osm_type, and calls neither Wikidata
\* nor the Overpass search or geometry.
C1_CacheHitReturnsRecord ==
    RanOnVerifiedRecord =>
        /\ run.outcome.found
        /\ run.outcome.osm_id = FromDict(run.before).osm_id
        /\ run.outcome.osm_type = IF FromDict(run.before).osm_type \in {None, ""}
                                  THEN "relation"
                                  ELSE FromDict(run.before).osm_type
        /\ CallsMade \cap WikidataOrOverpassCalls = {}

\* A cache hit on an operator record that has no osm_type.
C1_Witness ==
    /\ RanOnVerifiedRecord
    /\ "osm_type" \notin DOMAIN run.before
    /\ run.outcome.osm_type = "relation"
    /\ run.calls = <<"osm.verify_exists">>

AutomatedOps == {"set", "update_version", "process_circuit", "search_osm_id"}

IsManual(d, n) == n \in DOMAIN d /\ DictGet(d[n], "manual", FALSE)

WithoutVersion(e) == [e EXCEPT !.osm_version = NoInt]

C3_SetLeavesManualRecord ==
    [][(lastOp' = "set" /\ IsManual(data, run'.name)) =>
          /\ data' = data
          /\ file' = file
          /\ ~run'.saved]_vars

\* set was called on a manual record with an osm_id other than the record's.
C3_Witness ==
    /\ lastOp = "set"
    /\ IsManual(data, run.name)
    /\ ~run.saved
    /\ run.set_args.osm_id # Get(data, run.name).osm_id

\* C4: the store file is written atomically: whenever a save() is
\* interrupted the file holds the complete previous or the complete new
\* content, never a truncated one.
C4_FileNeverTruncated == file.status # "partial"

\* The response that came in with the last step is a 200 from the server
\* at position idx, and (decodable) its body is JSON.
ReturnsAt(qq, qn, k, body) ==
    /\ qn.pc = "done"
    /\ qn.result = [returned |-> TRUE, data |-> body, server |-> ServerNames[k]]
    /\ qn.contacted = Append(qq.contacted, ServerNames[k])
    /\ qn.requests = qq.requests + 1
    /\ qn.sleeps = qq.sleeps
    /\ qn.attempt = qq.attempt

Answered200(qq, qn) ==
    /\ qq.pc = "round"
    /\ qn.requests = qq.requests + 1
    /\ qn.lastResp.status = "200"
    /\ qn.lastResp.server = ServerNames[qq.idx]

\* C5 as stated: when the server at position k answers HTTP 200, query
\* returns that answer and the server's name at once: no later server is
\* contacted, no backoff sleep happens and no further round starts.
C5_Returns200Response ==
    [][Answered200(q, q') => ReturnsAt(q, q', q.idx, q'.lastResp.body)]_vars

\* C5: when the servers before position k have failed and the server at k
\* answers HTTP 200 with a JSON body, query returns that body and the
\* server's name at once: no later server is contacted, no backoff sleep
\* happens and no further round starts.
C5_ReturnsDecodable200Response ==
    [][(Answered200(q, q') /\ q'.lastResp.body # None) =>
          ReturnsAt(q, q', q.idx, q'.lastResp.body)]_vars

\* The third server of the second round answered 200 after a 504 and a 429.
C5_Witness ==
    /\ q.pc = "done"
    /\ q.result.data \in Bodies
    /\ q.result.server = ServerNames[3]
    /\ q.contacted = SubSeq(ServerNames, 1, 3)
    /\ q.attempt = 1
    /\ q.timeouts = 1 /\ q.rate_limits = 1

Outranks(a, b) ==
    \/ a.from_circuit_name /\ ~b.from_circuit_name
    \/ a.from_circuit_name = b.from_circuit_name /\ a.score > b.score

\* found[k] is the candidate the stated policy selects.
PolicyWinner(found, k) ==
    \A j \in 1..Len(found) :
        j # k => \/ Outranks(found[k], found[j])
                 \/ ~Outranks(found[j], found[k]) /\ k < j

\* C7: the candidate search_osm_id selects is one found with the circuit
\* name whenever there is one, whatever the scores; among those of the same
\* from_circuit_name the one with the highest score; among those equal on
\* both the one discovered first.
C7_SelectionOrder ==
    (lastOp = "search_osm_id" /\ Len(run.found) > 0) =>
        \E k \in 1..Len(run.found) :
            /\ PolicyWinner(run.found, k)
            /\ run.candidates[1] = run.found[k]
            /\ run.outcome.found
            /\ run.outcome.osm_id = run.found[k].osm_id
            /\ run.outcome.osm_type = run.found[k].osm_type
            /\ run.set_args.osm_id = run.found[k].osm_id

\* A candidate of the circuit name won against one of a Grand Prix name
\* with a higher score.
C7_Witness ==
    /\ lastOp = "search_osm_id"
    /\ Len(run.found) > 1
    /\ run.candidates[1].from_circuit_name
    /\ \E k \in 1..Len(run.found) :
          /\ ~run.found[k].from_circuit_name
          /\ run.found[k].score > run.candidates[1].score
    /\ run.outcome.osm_id = run.candidates[1].osm_id

\* The run of search_osm_id in run was for Example Circuit, without a
\* record, in a world where Wikidata lists only Q1, whose P402 is 555, and
\* it found one candidate.
OnlyQ1With555 ==
    /\ lastOp = "search_osm_id"
    /\ run.name = Circuit1.name
    /\ ~run.had
    /\ run.inputs.wd /\ run.inputs.op
    /\ Listed(world) = {"Q1"}
    /\ world.p402["Q1"] = 555
    /\ Len(run.found) = 1

\* C8: without a record, Wikidata listing only Q1, P402 of Q1 being relation
\* 555 and no other candidate, search_osm_id returns osm_id 555, osm_type
\* relation, the P402 method and wikidata_id Q1, and the record stored for
\* the circuit has osm_id 555 and manual=false.
C8_EndToEnd ==
    OnlyQ1With555 =>
        /\ run.outcome = SearchResult(555, "relation", <<"Wikidata", "P402">>, "Q1")
        /\ run.saved
        /\ IsEntry(Get(data, Circuit1.name))
        /\ Get(data, Circuit1.name).osm_id = 555
        /\ Get(data, Circuit1.name).manual = FALSE

C8_Witness ==
    /\ OnlyQ1With555
    /\ run.outcome.osm_id = 555
    /\ file.status = "ok"
    /\ Circuit1.name \in DOMAIN file.circuits
    /\ file.circuits[Circuit1.name].osm_id = 555

TagsOnly(tags) == [tags |-> tags]

\* C9: _circuit_score(element) is the sum of the deltas of the rules of the
\* table that apply to the element, and for the tag maps {type: circuit},
\* {highway: services} and {leisure: sports_centre, landuse: x} alone it is
\* 100, -60 and -70.
C9_ScoreIsRuleTableSum ==
    score.scored =>
        /\ score.value = RuleTableSum(9, element)
        /\ element = TagsOnly([type |-> "circuit"]) => score.value = 100
        /\ element = TagsOnly([highway |-> "services"]) => score.value = -60
        /\ element = TagsOnly([leisure |-> "sports_centre", landuse |-> "x"])
              => score.value = -70

\* An element with landuse and amenity, scored with one penalty of 20.
C9_Witness ==
    /\ score.scored
    /\ "tags" \in DOMAIN element
    /\ {"landuse", "amenity"} \subseteq DOMAIN element.tags
    /\ DOMAIN element.tags = {"landuse", "amenity"}
    /\ "type" \notin DOMAIN element
    /\ score.value = -20

\* C10: from_dict(to_dict(e)) equals e field for field, an empty comment
\* coming back as None; and after set(name, args) has stored a record,
\* get(name) returns an entry with the values of the arguments, the time of
\* the call, and the fields of the stored record.
C10_RoundTrip ==
    /\ (IsEntry(entry) /\ IsEntry(entryBack)) =>
          entryBack = [entry EXCEPT
                          !.comment = IF @.kind = "empty" THEN NoComment ELSE @]
    /\ (lastOp = "get" /\ run.saved) =>
          /\ IsEntry(entryBack)
          /\ entryBack.osm_id = run.set_args.osm_id
          /\ entryBack.osm_type = run.set_args.osm_type
          /\ entryBack.wikidata_id = run.set_args.wikidata_id
          /\ entryBack.search_method = run.set_args.method
          /\ entryBack.search_name = run.set_args.search_name
          /\ entryBack.verified_at = FormatMinute(run.at)
          /\ entryBack.osm_version = NoInt
          /\ \A k \in DOMAIN data[run.name] : entryBack[k] = data[run.name][k]

\* An entry with an empty comment and version 0 has made the round trip.
C10_Witness ==
    /\ IsEntry(entry) /\ IsEntry(entryBack)
    /\ entry.comment = EmptyComment
    /\ entryBack.comment = NoComment
    /\ entry.osm_version = 0
    /\ entryBack.osm_version = 0

\* The Q-IDs get_p402_batch was asked for, and the bindings it was sent.
AskedQids == {wd.qids[i] : i \in 1..Len(wd.qids)}
BindingsSent == IF wd.response.kind = "object" THEN wd.response.bindings ELSE <<>>

Without(s, k) == SubSeq(s, 1, k - 1) \o SubSeq(s, k + 1, Len(s))

\* Some binding of qid carries an integer.
HasIntegerBinding(qid) ==
    \E i \in 1..Len(BindingsSent) :
        LastPiece(BindingsSent[i].item) = qid /\ IntegerBinding(BindingsSent[i])

\* What the call returns when binding k is taken out of the response.
ReturnedWithout(k) ==
    GetP402BatchOf(wd.qids, [kind |-> "object", bindings |-> Without(BindingsSent, k)])

\* C11: whenever get_p402_batch returns, on success, transport failure or
\* an unparsable response, the map has an entry for every Q-ID asked for; a
\* Q-ID with no binding that carries an integer maps to None; and a binding
\* without an integer value changes no other Q-ID's value: the call returns
\* the same values for them when that binding is taken out of the response.
C11_BatchCoversEveryInput ==
    (wd.call = "get_p402_batch" /\ wd.out.status = "returned") =>
        /\ AskedQids \subseteq DOMAIN wd.out.value
        /\ \A qid \in AskedQids : ~HasIntegerBinding(qid) => wd.out.value[qid] = NoInt
        /\ \A k \in 1..Len(BindingsSent) :
              ~IntegerBinding(BindingsSent[k]) =>
                 /\ ReturnedWithout(k).status = "returned"
                 /\ \A qid \in AskedQids \ {LastPiece(BindingsSent[k].item)} :
                       ReturnedWithout(k).value[qid] = wd.out.value[qid]

\* Q1 came with a value that is no integer and Q2 with 556.
C11_Witness ==
    /\ wd.call = "get_p402_batch"
    /\ wd.out.status = "returned"
    /\ wd.qids = <<"Q1", "Q2">>
    /\ wd.response.kind = "object"
    /\ \E i \in 1..Len(wd.response.bindings) :
          wd.response.bindings[i] = [item |-> EntityUri("Q1"), osmRelation |-> "abc"]
    /\ wd.out.value["Q1"] = NoInt
    /\ wd.out.value["Q2"] = 556

\* The keyword bonus of a result, from the terms its description shows:
\* 10 for a circuit-type term, 5 more for Formula or F1.
HasCircuitTerm(r) == r.description \in {<<"R", "a", "c", "e", " ", "T", "r", "a", "c", "k">>, <<"F", "1", " ", "c", "i", "r", "c", "u", "i", "t">>}
HasFormulaTerm(r) == r.description \in {<<"F", "o", "r", "m", "u", "l", "a", " ", "t", "e", "a", "m">>, <<"F", "1", " ", "c", "i", "r", "c", "u", "i", "t">>}
Bonus(r) == (IF HasCircuitTerm(r) THEN 10 ELSE 0) + (IF HasFormulaTerm(r) THEN 5 ELSE 0)

\* find_ids has returned on a response whose results all have an id and a
\* description that is a string or is left out.
RankedResponse ==
    /\ wd.call = "find_ids"
    /\ wd.out.status = "returned"
    /\ wd.response.kind = "object"
    /\ \A i \in 1..Len(wd.response.search) : ~BadResult(wd.response.search[i])

\* C20: on a successful response the list find_ids returns is a permutation
\* of the ids of the results, in the order of the keyword bonus, highest
\* first, and results of equal bonus keep the order of the response.
C20_FindIdsReranks ==
    RankedResponse =>
        /\ Len(wd.out.value) = Len(wd.response.search)
        /\ \E pi \in Permutations(1..Len(wd.response.search)) :
              /\ \A i \in 1..Len(wd.out.value) :
                    wd.out.value[i] = wd.response.search[pi[i]].id
              /\ \A i, j \in 1..Len(wd.out.value) :
                    i < j =>
                       \/ Bonus(wd.response.search[pi[i]]) > Bonus(wd.response.search[pi[j]])
                       \/ /\ Bonus(wd.response.search[pi[i]]) = Bonus(wd.response.search[pi[j]])
                          /\ pi[i] < pi[j]

\* Q2 with the highest bonus moved to the front; Q1 and Q3, without a
\* keyword, were kept and stayed in the order of the response.
C20_Witness ==
    /\ RankedResponse
    /\ wd.response.search =
          <<[id |-> "Q1", description |-> <<"c", "i", "t", "y">>],
            [id |-> "Q2", description |-> <<"F", "1", " ", "c", "i", "r", "c", "u", "i", "t">>],
            [id |-> "Q3", description |-> <<"c", "i", "t", "y">>]>>
    /\ wd.out.value = <<"Q2", "Q1", "Q3">>

\* C12: whatever the backends answer to the calls made for a circuit,
\* process_circuit returns a ProcessResult and run() goes on with the next
\* circuit: no call of process_circuit ends run() with an exception.
C12_NoCircuitAbortsRun == lastOp = "process_circuit" => proc # "failed"

\* The store file is not a JSON object holding the store: it is cut short,
\* or it is JSON of another shape.
CorruptFile == file.status \in {"partial", "not_object"}

\* C14: on a corrupt store file the construction of CircuitCache completes
\* and the store has no records.
C14_LoadNeverFails ==
    [][(lastOp' = "construct" /\ CorruptFile) =>
          (proc' = "running" /\ data' = EmptyDict)]_vars

\* C13: any two consecutive requests to one Overpass server are at least
\* request_delay apart, over any sequence of query calls with failover,
\* retry rounds and slow or timed-out responses.
C13_RequestsToOneServerApart == th.q.pc # "none" => th.gap >= DelayTicks

\* The record the run of search_osm_id in run has stored for its circuit.
StoredByRun == Get(data, run.name)

\* The run found no candidate, Wikidata had returned a Q-ID, and the run
\* has stored a record.
KnownButAbsent ==
    /\ lastOp = "search_osm_id"
    /\ run.path = "resolved"
    /\ Len(run.found) = 0
    /\ Len(run.all_qids) > 0
    /\ run.saved

\* The record cache.set stores at time t when nothing was found anywhere.
NothingFoundRecord(t) == BuildEntry(NoInt, None, None, None, None, NoComment, t)

\* C15 as stated: the record stored when no candidate was found but
\* Wikidata returned a Q-ID has osm_id null, manual=false and the first
\* collected Q-ID as wikidata_id.
C15_KnownButAbsentIsNotManual ==
    KnownButAbsent =>
        /\ StoredByRun.osm_id = NoInt
        /\ StoredByRun.manual = FALSE
        /\ StoredByRun.wikidata_id = run.all_qids[1].qid

\* C15: the record stored when no candidate was found but Wikidata returned
\* a Q-ID has osm_id null, manual=true, the first collected Q-ID as
\* wikidata_id and the TODO comment naming it; it differs from the record
\* stored when nothing was found anywhere in wikidata_id and comment, that
\* record having manual=true and a TODO comment as well.
C15_KnownButAbsentRecord ==
    KnownButAbsent =>
        /\ StoredByRun.osm_id = NoInt
        /\ StoredByRun.manual = TRUE
        /\ StoredByRun.wikidata_id = run.all_qids[1].qid
        /\ StoredByRun.comment = TodoComment(run.all_qids[1].qid)
        /\ StoredByRun.wikidata_id # NothingFoundRecord(run.at).wikidata_id
        /\ StoredByRun.comment # NothingFoundRecord(run.at).comment
        /\ NothingFoundRecord(run.at).manual = TRUE
        /\ [StoredByRun EXCEPT !.wikidata_id = None, !.comment = TodoComment(None)]
              = NothingFoundRecord(run.at)

\* Q2 was collected first, by a Grand Prix name, and nothing was found for
\* it in OSM.
C15_Witness ==
    /\ KnownButAbsent
    /\ ~run.had
    /\ run.all_qids[1].qid = "Q2"
    /\ StoredByRun.wikidata_id = "Q2"
    /\ StoredByRun.manual

\* The run of search_osm_id in run began on a record that is not manual.
RanOnAutomaticRecord ==
    /\ lastOp = "search_osm_id"
    /\ run.had
    /\ ~DictGet(run.before, "manual", FALSE)

C17_RecordsNeverDeleted ==
    [][lastOp' \in AutomatedOps \cup {"get"} =>
          /\ DOMAIN data \subseteq DOMAIN data'
          /\ (file.status = "ok" /\ file'.status = "ok") =>
                DOMAIN file.circuits \subseteq DOMAIN file'.circuits]_vars

\* set was called without an osm_id on a record that is not manual: the
\* name is still in the store and in the file.
C17_Witness ==
    /\ lastOp = "set"
    /\ run.saved
    /\ run.set_args.osm_id = NoInt
    /\ run.name \in DOMAIN data
    /\ file.status = "ok"
    /\ run.name \in DOMAIN file.circuits

\* The run of search_osm_id in run began on a record with an osm_id to
\* verify.
RanOnCachedId ==
    /\ lastOp = "search_osm_id"
    /\ run.had
    /\ TruthyInt(FromDict(run.before).osm_id)

\* C18: when the existence check of a cached osm_id ends in a network
\* error, search_osm_id returns the cached record as the outcome, without
\* resolving anew and without changing the record; a run on a cached
\* osm_id resolves anew only when verify_exists has answered that the
\* element does not exist (a status other than 200).
C18_VerifyFailsOpen ==
    /\ (RanOnCachedId /\ run.inputs.verify = "network-error") =>
          /\ run.path = "cache_hit"
          /\ run.outcome.found
          /\ run.outcome.osm_id = FromDict(run.before).osm_id
          /\ run.outcome.wikidata_id = FromDict(run.before).wikidata_id
          /\ CallsMade \cap WikidataOrOverpassCalls = {}
          /\ ~run.saved
          /\ data[run.name] = run.before
    /\ (RanOnCachedId /\ run.path = "resolved") =>
          run.inputs.verify \notin {"200", "network-error"}

\* A network error during the check of a record an earlier run stored.
C18_Witness ==
    /\ RanOnCachedId
    /\ ~DictGet(run.before, "manual", FALSE)
    /\ run.inputs.verify = "network-error"
    /\ run.path = "cache_hit"
    /\ run.outcome.osm_id = 555

\* C19: when the write of the store file fails in the save() of
\* cache.set, the process goes on, search_osm_id returns the outcome of the
\* selected candidate (None without a candidate), and the record in the
\* store is the one of the cache.set call.
C19_SaveFailureIsSwallowed ==
    (lastOp = "search_osm_id" /\ run.saved /\ run.save = "oserror") =>
        /\ proc = "running"
        /\ StoredByRun = BuildEntry(run.set_args.osm_id, run.set_args.osm_type,
                                    run.set_args.wikidata_id, run.set_args.method,
                                    run.set_args.search_name, run.set_args.comment,
                                    run.at)
        /\ run.outcome.found = (Len(run.found) > 0)
        /\ Len(run.found) > 0 =>
              /\ run.outcome.osm_id = run.candidates[1].osm_id
              /\ run.outcome.osm_type = run.candidates[1].osm_type
              /\ StoredByRun.osm_id = run.candidates[1].osm_id

\* The file could not be written after a first resolution: the file has
\* no record, the store has the new one, the outcome was returned.
C19_Witness ==
    /\ lastOp = "search_osm_id"
    /\ run.save = "oserror"
    /\ ~run.had
    /\ run.outcome.found
    /\ StoredByRun.osm_id = run.outcome.osm_id
    /\ file = [status |-> "ok", circuits |-> EmptyDict]
    /\ proc = "running"

\* The step is a store mutation whose save() has written the file.
MutationSaved ==
    /\ lastOp' \in {"set", "update_version"}
    /\ run'.saved
    /\ file.status = "ok"
    /\ file'.status = "ok"

\* C21: a store mutation rewrites the file from the file's content just
\* before it: every record other than the target's is in the file after the
\* mutation exactly as it was in the file before it, also when the file
\* was changed after the store was loaded.
C21_MutationKeepsFileRecords ==
    [][MutationSaved =>
          \A n \in Names \ {run'.name} :
              /\ (n \in DOMAIN file'.circuits) = (n \in DOMAIN file.circuits)
              /\ n \in DOMAIN file.circuits => file'.circuits[n] = file.circuits[n]]_vars

\* The step answers the last server of a round in which no server gave a
\* 200 and some server gave a 429.
RoundFailsRateLimited ==
    /\ q.pc = "round"
    /\ q.idx = NumServers
    /\ q'.requests = q.requests + 1
    /\ q'.lastResp.status # "200"
    /\ q.rate_limits > 0 \/ q'.lastResp.status = "429"

\* The numbers of requests and of backoff sleeps of a call stay within
\* len(servers) * max_retries and max_retries - 1 (none without a round).
WithinRetryBudget ==
    /\ q.requests <= NumServers * q.max_retries
    /\ Len(q.sleeps) <= (IF q.max_retries = 0 THEN 0 ELSE q.max_retries - 1)
    /\ Len(q.sleeps) = q.attempt
    /\ \A k \in 1..Len(q.sleeps) : q.sleeps[k] = RetryDelay * (k + 1)
    /\ (q.pc = "done" /\ q.max_retries > 0 /\ q.requests = NumServers * q.max_retries)
          => (q.result = Failure \/ q.lastResp.status = "200")

\* C22: after a round without a 200 and with a 429 the call sleeps
\* retry_delay * (attempt + 2) and starts the next round at the first
\* server, and after the last round it returns failure without sleeping; a
\* call sends at most len(servers) * max_retries requests, sleeps at most
\* max_retries - 1 times, and every call comes to its end.
C22_RetryProtocol ==
    /\ [][RoundFailsRateLimited =>
             IF q.attempt < q.max_retries - 1
             THEN /\ q'.pc = "round"
                  /\ q'.attempt = q.attempt + 1
                  /\ q'.idx = 1
                  /\ q'.contacted = <<>>
                  /\ q'.sleeps = Append(q.sleeps, RetryDelay * (q.attempt + 2))
             ELSE /\ q'.pc = "done"
                  /\ q'.result = Failure
                  /\ q'.sleeps = q.sleeps]_vars
    /\ []WithinRetryBudget
    /\ (q.pc = "round" ~> q.pc \in {"done", "raised"})

\* Three rounds of five servers, each with a 429, have been used up: two
\* sleeps of 10 and 15 seconds, fifteen requests, failure.
C22_Witness ==
    /\ q.pc = "done"
    /\ q.max_retries = 3
    /\ q.requests = 15
    /\ q.sleeps = <<10, 15>>
    /\ q.result = Failure
    /\ q.lastResp.status = "429"

\* The run of search_osm_id in run has written a record by cache.set.
RunStoredRecord == lastOp = "search_osm_id" /\ run.saved

\* C23: a record written by cache.set has manual=true exactly when its
\* osm_id is null; written without an osm_id and without a comment passed,
\* it has the TODO comment, which names the Q-ID exactly when the record
\* has a wikidata_id.
C23_ManualIffNoOsmId ==
    RunStoredRecord =>
        /\ data[run.name]["manual"] = (data[run.name]["osm_id"] = NoInt)
        /\ data[run.name]["osm_id"] = run.set_args.osm_id
        /\ (run.set_args.osm_id = NoInt /\ ~TruthyComment(run.set_args.comment)) =>
              /\ "comment" \in DOMAIN data[run.name]
              /\ data[run.name]["comment"].kind = "todo"
              /\ data[run.name]["comment"].qid = data[run.name]["wikidata_id"]
              /\ data[run.name]["wikidata_id"] = run.set_args.wikidata_id
        /\ run.set_args.osm_id # NoInt =>
              DictGet(data[run.name], "comment", NoComment) = run.set_args.comment

\* Nothing was found anywhere: the record has no osm_id, is manual and has
\* the TODO comment without a link.
C23_Witness ==
    /\ RunStoredRecord
    /\ Len(run.all_qids) = 0
    /\ data[run.name]["osm_id"] = NoInt
    /\ data[run.name]["manual"]
    /\ data[run.name]["comment"] = TodoComment(None)

FromWikidata(c) == c.method # "osm_name"

\* The candidates of the run in run after the P402 and the wikidata-tag
\* steps.
WikidataFound == SelectSeq(run.found, FromWikidata)

\* There is no candidate, or none found via the circuit name and none with
\* a score of 50 or more.
NameSearchDue ==
    \/ Len(WikidataFound) = 0
    \/ /\ \A k \in 1..Len(WikidataFound) : ~WikidataFound[k].from_circuit_name
       /\ \A k \in 1..Len(WikidataFound) : WikidataFound[k].score < 50

NameSearchCalls == {k \in 1..Len(run.calls) : run.calls[k] = "overpass.find_by_name"}

\* C24: a run of search_osm_id that resolves calls find_by_name exactly
\* when, after the P402 and wikidata-tag steps, there is no candidate, or
\* no candidate from the circuit name and no score of 50 or more; it calls
\* it at most once, with the circuit name; a run that ends in the cache
\* check does not call it.
C24_NameSearchOnlyAsFallback ==
    lastOp = "search_osm_id" =>
        /\ Cardinality(NameSearchCalls) = Len(run.name_queries)
        /\ Len(run.name_queries) <= 1
        /\ \A k \in 1..Len(run.name_queries) : run.name_queries[k] = run.name
        /\ run.path = "resolved" => ((Len(run.name_queries) = 1) = NameSearchDue)
        /\ run.path # "resolved" => Len(run.name_queries) = 0
        /\ run.tried_name = (Len(run.name_queries) = 1)

\* The only candidate came from a Grand Prix name and scores below 50: the
\* name search was made, with the circuit name.
C24_Witness ==
    /\ lastOp = "search_osm_id"
    /\ run.path = "resolved"
    /\ Len(WikidataFound) = 1
    /\ ~WikidataFound[1].from_circuit_name
    /\ WikidataFound[1].score < 50
    /\ run.name_queries = <<"Example Circuit">>
    /\ run.name = "Example Circuit"

\* C25: the candidates of a run of search_osm_id have pairwise different
\* osm_ids: an id recorded by the P402 step is not recorded again by the
\* wikidata-tag step or the name search, nor one of the wikidata-tag step
\* by the name search.
C25_CandidatesHaveDistinctIds ==
    lastOp = "search_osm_id" =>
        \A i, j \in 1..Len(run.found) :
            run.found[i].osm_id = run.found[j].osm_id => i = j

\* Relation 555 is the P402 value of Q1 and carries the wikidata tag of Q2:
\* the run has the P402 candidate only.
C25_Witness ==
    /\ lastOp = "search_osm_id"
    /\ run.path = "resolved"
    /\ run.inputs.wd /\ run.inputs.op
    /\ HasQid(run.all_qids, "Q1") /\ HasQid(run.all_qids, "Q2")
    /\ world.p402["Q1"] = 555
    /\ world.tag["Q2"] = 555
    /\ Len(run.found) = 1
    /\ run.found[1].osm_id = 555
    /\ run.found[1].method = "P402"

\* The circuit the run in run was made for, and its search names.
RunCircuit == CHOOSE c \in Circuits : c.name = run.name
RunNames == SearchNames(RunCircuit)

\* The Wikidata search of the run for the i-th search name returned qid.
ReturnedFor(i, qid) ==
    /\ run.inputs.wd
    /\ \E k \in 1..Len(world.find[RunNames[i]]) : world.find[RunNames[i]][k] = qid

FirstNameReturning(qid) ==
    RunNames[CHOOSE i \in 1..Len(RunNames) :
                 /\ ReturnedFor(i, qid)
                 /\ \A j \in 1..(i - 1) : ~ReturnedFor(j, qid)]

\* C26: all_qids holds each Q-ID some search of the run returned, once,
\* with the first search name (circuit name, then Grand Prix names) whose
\* search returned it; the Q-ID counts as found via the circuit name
\* exactly when the search for the circuit name returned it, whether or
\* not a Grand Prix name returned it too.
C26_QidKeepsFirstSearchName ==
    (lastOp = "search_osm_id" /\ run.path = "resolved") =>
        /\ \A qid \in Qids :
              HasQid(run.all_qids, qid) = (\E i \in 1..Len(RunNames) : ReturnedFor(i, qid))
        /\ \A k, l \in 1..Len(run.all_qids) :
              run.all_qids[k].qid = run.all_qids[l].qid => k = l
        /\ \A k \in 1..Len(run.all_qids) :
              /\ run.all_qids[k].search_name = FirstNameReturning(run.all_qids[k].qid)
              /\ run.all_qids[k].primary = ReturnedFor(1, run.all_qids[k].qid)

\* Both names return Q1 and Q2, in different orders: both Q-IDs are kept
\* under the circuit name and count as found via it.
C26_Witness ==
    /\ lastOp = "search_osm_id"
    /\ run.path = "resolved"
    /\ run.inputs.wd
    /\ world.find["Example Circuit"] = <<"Q1", "Q2">>
    /\ world.find["Example Grand Prix"] = <<"Q2", "Q1">>
    /\ run.name = "Example Circuit"
    /\ Len(run.all_qids) = 2
    /\ \A k \in 1..2 : run.all_qids[k].primary
                        /\ run.all_qids[k].search_name = "Example Circuit"

\* What the comment says of the candidate c.
Listing(c) ==
    [osm_type |-> c.osm_type, osm_id |-> c.osm_id, search_name |-> c.search_name,
     qid_or_name |-> IF c.qid = "" THEN "name" ELSE c.qid, score |-> c.score]

\* C27: the record a run of search_osm_id stores has, with more than one
\* candidate, the comment listing the candidates after the selected one in
\* the order of the selection sort, each with its type and id, the name it
\* was found with, its Q-ID or "name", and its score; with exactly one
\* candidate it has no comment.
C27_CommentListsRunnersUp ==
    (RunStoredRecord /\ Len(run.candidates) > 0) =>
        IF Len(run.candidates) > 1
        THEN /\ "comment" \in DOMAIN data[run.name]
             /\ data[run.name]["comment"].kind = "also"
             /\ Len(data[run.name]["comment"].others) = Len(run.candidates) - 1
             /\ \A k \in 2..Len(run.candidates) :
                   data[run.name]["comment"].others[k - 1] = Listing(run.candidates[k])
             /\ data[run.name]["osm_id"] = run.candidates[1].osm_id
        ELSE "comment" \notin DOMAIN data[run.name]

\* Three candidates, found in another order than the selection's, on a
\* record an earlier run had stored: the comment lists the second and third.
C27_Witness ==
    /\ RunStoredRecord
    /\ run.had
    /\ Len(run.candidates) = 3
    /\ run.candidates # run.found
    /\ Len(data[run.name]["comment"].others) = 2
    /\ data[run.name]["comment"].others[1].osm_id = run.candidates[2].osm_id

\* The positions of the cache.set calls among the calls of the run.
SetCalls == {k \in 1..Len(run.calls) : run.calls[k] = "cache.set"}

InnerElements == IF "elements" \in DOMAIN ov.inner THEN ov.inner.elements ELSE <<>>

ComplexSearched == ov.call = "find_circuit_in_complex" /\ ov.out # Pending

\* C29: _find_circuit_in_complex returns an element of its query's answer
\* with the highest score when that score is above 0, and none when the
\* query failed, gave no elements, or the highest score is 0 or less.
C29_InnerCircuitOnlyIfPositive ==
    ComplexSearched =>
        IF \E k \in 1..Len(InnerElements) : CircuitScore(InnerElements[k]) > 0
        THEN \E k \in 1..Len(InnerElements) :
                /\ ov.out.value.hit.osm_id = InnerElements[k].id
                /\ ov.out.value.hit.osm_type = InnerElements[k].type
                /\ \A j \in 1..Len(InnerElements) :
                      CircuitScore(InnerElements[j]) <= CircuitScore(InnerElements[k])
        ELSE ov.out.value.hit = NoHit

\* The answer holds two raceways inside sports centres, scoring -20 and 0:
\* none is returned.
C29_Witness ==
    /\ ComplexSearched
    /\ Len(InnerElements) = 2
    /\ CircuitScore(InnerElements[1]) = -20
    /\ CircuitScore(InnerElements[2]) = 0
    /\ ov.out.value.hit = NoHit

\* find_by_name or find_by_wikidata_tags_batch has returned on an answer
\* with elements.
HitSearched ==
    /\ ov.call \in {"find_by_name", "find_by_wikidata_tags_batch"}
    /\ ov.out # Pending
    /\ "elements" \in DOMAIN ov.data
    /\ Len(ov.data.elements) > 0

\* The first of the elements with the highest score.
BestHit ==
    ov.data.elements[
        CHOOSE k \in 1..Len(ov.data.elements) :
            /\ \A j \in 1..Len(ov.data.elements) :
                  CircuitScore(ov.data.elements[j]) <= CircuitScore(ov.data.elements[k])
            /\ \A j \in 1..(k - 1) :
                  CircuitScore(ov.data.elements[j]) < CircuitScore(ov.data.elements[k])]

HasTag(el, key, values) == key \in DOMAIN el.tags /\ el.tags[key] \in values

\* C30: the best-scoring hit is searched inside exactly when its score is
\* 0 or less, or its type tag is multipolygon or site, or its leisure tag is
\* sports_centre; when the inner search returns an element, that element is
\* the result; otherwise the hit itself is, in the wikidata-tag search with
\* its own score, also a score of 0 or less.
C30_ComplexEscalation ==
    HitSearched =>
        /\ ov.out.value.searched =
              ( \/ CircuitScore(BestHit) <= 0
                \/ HasTag(BestHit, "type", {"multipolygon", "site"})
                \/ HasTag(BestHit, "leisure", {"sports_centre"}) )
        /\ IF ov.out.value.searched /\ ComplexResult(ov.inner) # NoHit
           THEN /\ ov.out.value.hit.osm_id = ComplexResult(ov.inner).osm_id
                /\ ov.out.value.hit.osm_type = ComplexResult(ov.inner).osm_type
           ELSE /\ ov.out.value.hit.osm_id = BestHit.id
                /\ ov.out.value.hit.osm_type = BestHit.type
                /\ ov.call = "find_by_wikidata_tags_batch" =>
                      ov.out.value.hit.score = CircuitScore(BestHit)

\* The only element tagged with the Q-ID scores -10 and has no complex
\* tag; the search inside it finds nothing: the element is the result,
\* with the score -10.
C30_Witness ==
    /\ HitSearched
    /\ ov.call = "find_by_wikidata_tags_batch"
    /\ ov.data.elements = <<OsmElements[564]>>
    /\ ov.out.value.searched
    /\ ComplexResult(ov.inner) = NoHit
    /\ ov.out.value.hit = [osm_id |-> 564, osm_type |-> "way", score |-> -10]

\* C31: during a call of query the _current_server marker changes only in
\* the step that returns a server's response, and then names that server;
\* a request that fails, a 200 with an undecodable body included, leaves it
\* as it was; and every round starts at the first server of the list.
C31_MarkerOnlyOnSuccess ==
    [][/\ (q.pc = "round" /\ q'.current_server # q.current_server) =>
             /\ q'.pc = "done"
             /\ q'.result.returned
             /\ q'.result.data # None
             /\ q'.current_server = q'.result.server
       /\ (q'.pc = "round" /\ q'.contacted = <<>>) => q'.idx = 1]_vars

\* No record of the circuits dict d has an osm_version without an osm_id.
VersionsHaveIds(d) ==
    \A n \in DOMAIN d :
        DictGet(d[n], "osm_version", NoInt) # NoInt => DictGet(d[n], "osm_id", NoInt) # NoInt

\* The step is a process_circuit call that resolved anew on a record that
\* was not manual.
ResolvedAnewOnRecord ==
    /\ lastOp' = "process_circuit"
    /\ presult'.kind # "already_exists"
    /\ run'.path = "resolved"
    /\ run'.name \in DOMAIN data
    /\ ~IsManual(data, run'.name)

\* C32: a process_circuit call on a store in which no record has an
\* osm_version without an osm_id leaves such a store; and when its search
\* resolves anew and overwrites a record, the record keeps no osm_version
\* from before: it has none, or the one read after this call's download.
C32_NoVersionWithoutId ==
    [][/\ (lastOp' = "process_circuit" /\ VersionsHaveIds(data)) => VersionsHaveIds(data')
       /\ ResolvedAnewOnRecord =>
             \/ "osm_version" \notin DOMAIN data'[run'.name]
             \/ presult'.kind = "saved"]_vars

\* A record with an osm_id and a version was resolved anew with the
\* backends down: the new record has neither.
C32_Witness ==
    /\ lastOp = "process_circuit"
    /\ run.path = "resolved"
    /\ run.had
    /\ "osm_version" \in DOMAIN run.before
    /\ ~DictGet(run.before, "manual", FALSE)
    /\ data[run.name]["osm_id"] = NoInt
    /\ "osm_version" \notin DOMAIN data[run.name]

\* The circuits dict d without the records of names other than name.
OnlyRecordOf(d, name) == [n \in DOMAIN d \cap {name} |-> d[n]]

\* The step is a run of search_osm_id, alone or inside process_circuit.
IsRunStep ==
    /\ lastOp' \in {"search_osm_id", "process_circuit"}
    /\ presult'.kind # "already_exists"

\* C33: a run for a circuit leaves every record of another name as it was,
\* adds no key but circuit.name, which is a circuit name and not a Grand
\* Prix name, and runs as it would on a store holding no other record: it
\* looks nothing up under another key.
C33_OnlyOwnRecord ==
    [][IsRunStep =>
         /\ run'.name \in Names
         /\ DOMAIN data' \subseteq DOMAIN data \cup {run'.name}
         /\ \A n \in DOMAIN data \ {run'.name} : n \in DOMAIN data' /\ data'[n] = data[n]
         /\ lastOp' = "search_osm_id" =>
               LET c == CHOOSE x \in Circuits : x.name = run'.name
                   alone == SearchOsmId(c, OnlyRecordOf(data, c.name), world,
                                        run'.inputs, now)
               IN  /\ Trace(alone) = [run' EXCEPT !.save = "none"]
                   /\ OnlyRecordOf(alone.data, c.name) = OnlyRecordOf(data', c.name)]_vars

\* A run for the circuit stored its record in a store that holds records
\* under the other circuit's name and under the Grand Prix name.
C33_Witness ==
    /\ lastOp = "search_osm_id"
    /\ run.name = Circuit1.name
    /\ run.saved
    /\ Circuit1.grands_prix[1] \in DOMAIN data
    /\ Circuit2.name \in DOMAIN data
    /\ data[Circuit1.name] # data[Circuit1.grands_prix[1]]

\* The store of the running process holds a record of name without an
\* osm_id.
HoldsNotFound(name) ==
    /\ proc = "running"
    /\ name \in DOMAIN data
    /\ DictGet(data[name], "osm_id", NoInt) = NoInt

\* C34: while the store holds a record without an osm_id for a circuit,
\* whoever wrote it and whatever made the earlier run miss, every run for
\* that circuit returns absent at the cache check: no client call is made,
\* nothing is stored, and the record and the file stay as they are.
C34_NotFoundIsSticky ==
    [][\A c \in SpecCircuits : HoldsNotFound(c.name) =>
          /\ \A inp \in SearchInputs(c, data, TRUE) :
                LET r == SearchOsmId(c, data, world, inp, now)
                IN  /\ r.path = "manual_absent"
                    /\ r.calls = <<>>
                    /\ ~r.outcome.found
                    /\ ~r.saved
                    /\ r.data = data
          /\ (IsRunStep /\ run'.name = c.name) =>
                /\ run'.path = "manual_absent"
                /\ presult'.kind \in {"manual_skip", "not_in_osm", "not_found"}
                /\ data' = data
                /\ file' = file]_vars

\* A run returned absent on a record an earlier run had stored without a
\* Q-ID, although Wikidata lists the circuit and its P402 names an element:
\* the earlier miss came from a backend that did not answer.
C34_Witness ==
    /\ lastOp = "process_circuit"
    /\ run.path = "manual_absent"
    /\ "verified_at" \in DOMAIN run.before
    /\ DictGet(run.before, "wikidata_id", None) = None
    /\ world.find[Circuit1.name] # <<>>
    /\ world.p402[world.find[Circuit1.name][1]] # NoInt
    /\ data[run.name] = run.before

\* C35: when search_osm_id has returned an outcome, the record of
\* circuit.name in the store holds the osm_id and the osm_type of the
\* outcome.
C35_RecordMatchesOutcome ==
    (lastOp = "search_osm_id" /\ run.outcome.found) =>
        /\ run.name \in DOMAIN data
        /\ DictGet(data[run.name], "osm_id", NoInt) = run.outcome.osm_id
        /\ DictGet(data[run.name], "osm_type", None) = run.outcome.osm_type

\* C36: every key of the map get_p402_batch returns is one of the Q-IDs
\* the batch was asked for, whatever bindings the response carries.
C36_BatchKeysAreInputs ==
    (wd.call = "get_p402_batch" /\ wd.out \notin {Pending, Raised}) =>
        DOMAIN wd.out.value \subseteq {wd.qids[i] : i \in 1..Len(wd.qids)}

\* The candidates the name search of the run has added.
AddedByNameSearch == {k \in 1..Len(run.found) : run.found[k].method = "osm_name"}

\* C37: a candidate the fallback name search adds is the outcome of the
\* run: first after the sort and returned, without a Q-ID, whatever its
\* score and the scores of the candidates found through Wikidata.
C37_NameCandidateIsSelected ==
    (lastOp = "search_osm_id" /\ run.path = "resolved") =>
        \A k \in AddedByNameSearch :
            /\ run.candidates[1] = run.found[k]
            /\ run.outcome.found
            /\ run.outcome.osm_id = run.found[k].osm_id
            /\ run.outcome.osm_type = run.found[k].osm_type
            /\ run.outcome.wikidata_id = None
            /\ run.outcome.method = <<"Overpass name search">>

\* The name search added a candidate whose score is below that of a
\* candidate found through Wikidata, and the run returned it.
C37_Witness ==
    /\ lastOp = "search_osm_id"
    /\ \E k \in AddedByNameSearch : \E j \in 1..Len(run.found) :
          /\ run.found[j].score > run.found[k].score
          /\ run.outcome.osm_id = run.found[k].osm_id

\* C38: the osm_version process_circuit stores is at most the version of
\* the element the geojson file was made from, and a check-update run
\* answers "up to date" only when the file was made from a version that is
\* not older than the one get_version has just read.
C38_StoredVersionNotNewerThanFile ==
    /\ dl.pc # "none" =>
          /\ (dl.stored # NoInt /\ dl.written # NoInt) => dl.stored <= dl.written
          /\ dl.result = "up_to_date" => dl.written >= dl.remote_ver

\* C39: an instance built on a missing or corrupt file holds no record
\* when its constructor returns; an instance holds only records read from
\* its own file or stored through it; and the circuits dict of
\* DEFAULT_CACHE stays empty.
C39_InstancesAreIndependent ==
    heap # HeapIdle =>
        /\ heap.default = EmptyDict
        /\ \A i \in Instances : heap.inst[i].made =>
              /\ heap.inst[i].found \in {"missing", "partial"} =>
                    heap.inst[i].first = EmptyDict
              /\ DOMAIN CircuitsOf(heap, i) \subseteq
                    DOMAIN heap.inst[i].loaded \cup heap.inst[i].through

====
